---- MODULE Spec2Model ----
(***************************************************************************)
(* Model of the agentibility sequence executor (tools/run-sequence.ts),    *)
(* its event collectors, and the session registry (session.ts).            *)
(*                                                                         *)
(* JavaScript runs handlers to completion between awaits.  Every await of  *)
(* a handler is a program location (pc) at which page callbacks and other  *)
(* handlers may run; the synchronous code between two awaits is split into *)
(* a few locations for readability, and while any handler is at such a     *)
(* synchronous location nothing else may run (see Quiescent).              *)
(***************************************************************************)
EXTENDS Integers, Sequences, FiniteSets, TLC

\* ---------------------------------------------------------------- bounds
MaxSteps == 2
MaxClock == 1
MaxPageEvents == 2
MaxPages == 3
MaxCalls == 3
MaxWait == 2

\* ------------------------------------------------------------- universes
Runs == {"r1", "r2"}
Callers == {"c1", "c2"}
SessionIds == {"a", "b"}
\* an id that no open_session call uses
UnknownId == "zz"
Pages == 1..MaxPages
\* strings that the code searches are tuples of characters
Urls == {<<"a">>, <<"a", "b">>}
ReqIds == 1..MaxPageEvents

\* optional values: None is JavaScript's undefined
None == <<>>
Some(x) == <<x>>
IsSome(o) == o # None
Get(o) == o[1]

\* a property that is present and not the empty string (JavaScript truthiness
\* of an optional string)
Truthy(rec, f) == f \in DOMAIN rec /\ rec[f] # ""

VARIABLES
    sessions,       \* session.ts `sessions`: insertion-ordered Map id -> Session
    browser,        \* session.ts `browser`: None or Some(browser id)
    browsersLaunched, \* number of chromium.launch calls made so far
    browserAlive,   \* set of browser ids launched and not closed
    pageOpen,       \* the pages created and not closed
    pageBrowser,    \* page -> the browser that created it, 0 before the page exists
    pageUrl,        \* page -> page.url()
    listeners,      \* page -> sequence of <<run, channel>> in attach order
    requests,       \* request object -> [page, url, method, state, seqRequestId]
    clock,          \* Date.now()
    pageEvents,     \* number of page events emitted so far
    lastEvent,      \* NotRecorded, or None, or Some(the last event a page emitted)
    pc,             \* run -> location in run_sequence handler
    params,         \* run -> [session, steps, options]
    page,           \* run -> session.page
    events,         \* run -> events
    lastUrl,        \* run -> lastUrl
    pendingRequests,\* run -> set of [id, start, method, url]
    idx,            \* run -> loop variable i
    startTime,      \* run -> startTime
    completed,      \* run -> completed
    failedAt,       \* run -> failedAt
    failureReason,  \* run -> failureReason
    finalUrl,       \* run -> page.url() read while building the result
    result,         \* run -> None, or Some(payload returned)
    dispatches,     \* history: run -> the executeStep calls made and how each settled
    cpc,            \* caller -> location in openSession / closeSession
    cargs,          \* caller -> [id, url]
    cpage,          \* caller -> local `page` / `session.page`
    cbrowser,       \* caller -> local `b`
    cresult,        \* caller -> None, or Some(value returned by the tool handler)
    calls,          \* number of open_session / close_session calls made so far
    applied,        \* None, or Some([fn, page, input, calls, outcome]) of a direct library call
    dom             \* page -> [state, text] of the element the selectors match

registryVars == <<sessions, browser, browsersLaunched, browserAlive, pageOpen, pageBrowser>>
pageVars == <<pageUrl, listeners, requests, clock, pageEvents, lastEvent>>
runVars == <<pc, params, page, events, lastUrl, pendingRequests, idx, startTime,
             completed, failedAt, failureReason, finalUrl, result, dispatches>>
callerVars == <<cpc, cargs, cpage, cbrowser, cresult, calls>>
vars == <<registryVars, pageVars, runVars, callerVars, applied, dom>>

\* ------------------------------------------------------ session registry
\* Map.get
RECURSIVE MapGet(_, _)
MapGet(m, id) ==
    IF m = <<>> THEN None
    ELSE IF Head(m).id = id THEN Some(Head(m))
    ELSE MapGet(Tail(m), id)

MapHas(m, id) == IsSome(MapGet(m, id))

getSession(id) == MapGet(sessions, id)

\* (mutant) the ids are listed from the newest to the oldest
listSessions_reversed ==
    [k \in 1..Len(sessions) |-> sessions[Len(sessions) + 1 - k].id]

\* Array.from(sessions.keys()): the ids in insertion order
listSessions == [k \in 1..Len(sessions) |-> sessions[k].id]

\* ----------------------------------------------------------- page engine
\* The browser engine is external.  A call on a page that is closed rejects;
\* a call on an open page may succeed or reject (selector not found, timeout).
\* The document title is a function of the document's URL.
\* error messages are tuples of their parts
EngineError == <<"Target page, context or browser has been closed">>
TitleOf(url) == <<"title of", url>>
ElementCounts == {0, 1, 2}

\* String.prototype.includes on strings held as tuples of characters
Includes(s, t) ==
    \E k \in 0..(Len(s) - Len(t)) : SubSeq(s, k + 1, k + Len(t)) = t

\* outcomes of an awaited call
Return(v) == [kind |-> "return", value |-> v]
Throw(m) == [kind |-> "throw", message |-> m]

\* an awaited engine call on page p whose value, when it resolves, is in vs
EngineCall(p, vs) ==
    {Throw(EngineError)} \cup (IF p \in pageOpen THEN {Return(v) : v \in vs} ELSE {})

\* --------------------------------------------------- browser/actions.ts
ActionResult(type, extra) == [success |-> TRUE, action |-> type] @@ extra

\* the error thrown for a missing required parameter, None when valid
MissingParameter(a) ==
    CASE a.type = "navigate" ->
           IF ~Truthy(a, "url") THEN Some(<<"navigate requires url parameter">>) ELSE None
      [] a.type = "click" ->
           IF ~Truthy(a, "selector") THEN Some(<<"click requires selector parameter">>) ELSE None
      [] a.type = "fill" ->
           IF ~Truthy(a, "selector") THEN Some(<<"fill requires selector parameter">>)
           ELSE IF "value" \notin DOMAIN a THEN Some(<<"fill requires value parameter">>)
           ELSE None
      [] a.type = "select" ->
           IF ~Truthy(a, "selector") THEN Some(<<"select requires selector parameter">>)
           ELSE IF "value" \notin DOMAIN a THEN Some(<<"select requires value parameter">>)
           ELSE None
      [] a.type = "check" ->
           IF ~Truthy(a, "selector") THEN Some(<<"check requires selector parameter">>) ELSE None
      [] a.type = "uncheck" ->
           IF ~Truthy(a, "selector") THEN Some(<<"uncheck requires selector parameter">>) ELSE None
      [] a.type = "press" ->
           IF ~Truthy(a, "selector") /\ ~Truthy(a, "value")
           THEN Some(<<"press requires selector or value (key) parameter">>) ELSE None
      [] OTHER -> None

ActionTypes == {"navigate", "back", "forward", "click", "fill", "select",
                "check", "uncheck", "press", "scroll"}

\* the result object built once the page interaction has gone through
ActionSuccess(p, a) ==
    CASE a.type \in {"navigate", "back", "forward"} ->
           ActionResult(a.type, [url |-> pageUrl[p], title |-> TitleOf(pageUrl[p])])
      [] a.type \in {"click", "press"} ->
           ActionResult(a.type, [url |-> pageUrl[p]])
      [] a.type \in {"fill", "select", "check", "uncheck"} ->
           ActionResult(a.type, [selector |-> a.selector])
      [] a.type = "scroll" ->
           ActionResult(a.type, [direction |-> IF Truthy(a, "value") THEN a.value ELSE "down"])

\* the error of a call that waits for a load state and does not see it in time
LoadTimeout == <<"Timeout 30000ms exceeded">>

\* the calls performAction makes on the page for action a, in program order
PageCalls(a) ==
    CASE a.type = "navigate" -> <<"goto", "url", "title">>
      [] a.type = "back" -> <<"goBack", "url", "title">>
      [] a.type = "forward" -> <<"goForward", "url", "title">>
      [] a.type = "click" -> <<"click", "waitForLoadState", "url">>
      [] a.type = "fill" -> <<"fill">>
      [] a.type = "select" -> <<"selectOption">>
      [] a.type = "check" -> <<"check">>
      [] a.type = "uncheck" -> <<"uncheck">>
      [] a.type = "press" ->
           <<IF Truthy(a, "selector") THEN "press" ELSE "keyboard.press",
             "waitForLoadState", "url">>
      [] a.type = "scroll" -> <<"evaluate">>
      [] OTHER -> <<>>

\* the errors page call m can reject with: page.url() is a getter; goto,
\* goBack and goForward are called with waitUntil: 'domcontentloaded' and
\* reject when the load state is not reached in time
Rejections(m) ==
    IF m = "url" THEN {}
    ELSE IF m \in {"goto", "goBack", "goForward", "waitForLoadState"}
    THEN {EngineError, LoadTimeout}
    ELSE {EngineError}

\* (mutant) the load-state wait is awaited without `.catch(() => {})`
Caught_never(m) == FALSE

\* the page calls whose rejection performAction swallows: `.catch(() => {})`
Caught(m) == m = "waitForLoadState"

\* (mutant) the parameters are tested after the first call on the page
RECURSIVE Interact_late(_, _, _, _)
Interact_late(p, a, todo, made) ==
    IF made # <<>> /\ IsSome(MissingParameter(a))
    THEN {[calls |-> made, outcome |-> Throw(Get(MissingParameter(a)))]}
    ELSE IF todo = <<>>
    THEN {[calls |-> made, outcome |-> Return(ActionSuccess(p, a))]}
    ELSE LET m == Head(todo)
             resolved == Interact_late(p, a, Tail(todo), Append(made, <<m, None>>))
         IN (IF p \in pageOpen \/ m = "url" THEN resolved ELSE {})
              \cup UNION {IF Caught(m)
                          THEN Interact_late(p, a, Tail(todo), Append(made, <<m, Some(e)>>))
                          ELSE {[calls |-> Append(made, <<m, Some(e)>>), outcome |-> Throw(e)]} :
                          e \in Rejections(m)}

\* (mutant) a try/catch around the switch turns a rejected page call into a
\* result object with success false and the error
RECURSIVE Interact_caught(_, _, _, _)
Interact_caught(p, a, todo, made) ==
    IF todo = <<>>
    THEN {[calls |-> made, outcome |-> Return(ActionSuccess(p, a))]}
    ELSE LET m == Head(todo)
             resolved == Interact_caught(p, a, Tail(todo), Append(made, <<m, None>>))
         IN (IF p \in pageOpen \/ m = "url" THEN resolved ELSE {})
              \cup UNION {IF Caught(m)
                          THEN Interact_caught(p, a, Tail(todo), Append(made, <<m, Some(e)>>))
                          ELSE {[calls |-> Append(made, <<m, Some(e)>>),
                                 outcome |-> Return([success |-> FALSE, action |-> a.type,
                                                     error |-> e])]} :
                          e \in Rejections(m)}

\* the ways the rest of performAction can go once the parameters are valid:
\* todo are the page calls still to make, made the calls made so far, each
\* with None when it resolved or Some(error) when it rejected
RECURSIVE Interact(_, _, _, _)
Interact(p, a, todo, made) ==
    IF todo = <<>>
    THEN {[calls |-> made, outcome |-> Return(ActionSuccess(p, a))]}
    ELSE LET m == Head(todo)
             resolved == Interact(p, a, Tail(todo), Append(made, <<m, None>>))
         IN (IF p \in pageOpen \/ m = "url" THEN resolved ELSE {})
              \cup UNION {IF Caught(m)
                          THEN Interact(p, a, Tail(todo), Append(made, <<m, Some(e)>>))
                          ELSE {[calls |-> Append(made, <<m, Some(e)>>), outcome |-> Throw(e)]} :
                          e \in Rejections(m)}

\* (mutant) the parameters are tested after the first call on the page
Performed_late(p, a) ==
    IF a.type \notin ActionTypes
    THEN {[calls |-> <<>>, outcome |-> Throw(<<"Unknown action type: ", a.type>>)]}
    ELSE Interact_late(p, a, PageCalls(a), <<>>)

\* performAction(page, params) with the page calls it makes: the set of
\* [calls, outcome] the call can have
Performed(p, a) ==
    IF a.type \notin ActionTypes
    THEN {[calls |-> <<>>, outcome |-> Throw(<<"Unknown action type: ", a.type>>)]}
    ELSE IF IsSome(MissingParameter(a))
    THEN {[calls |-> <<>>, outcome |-> Throw(Get(MissingParameter(a)))]}
    ELSE Interact(p, a, PageCalls(a), <<>>)

\* performAction(page, params): the set of outcomes the call can have
performAction(p, a) == {t.outcome : t \in Performed(p, a)}

\* a caller awaits performAction(page, a) directly, as the action tool does
PerformAction(p, a) ==
    /\ applied = None
    /\ \E t \in Performed(p, a) :
          applied' = Some([fn |-> "performAction", page |-> p, input |-> a,
                           calls |-> t.calls, outcome |-> t.outcome])
    /\ UNCHANGED <<registryVars, pageVars, runVars, callerVars, dom>>

\* ------------------------------------------------ browser/assertions.ts
DEFAULT_TIMEOUT == 5000

\* (mutant) the error is left out of the result
Compared_bare(success, name, expected, actual, msg) ==
    [success |-> success, condition |-> name, expected |-> expected, actual |-> actual]

\* {success, condition, expected, actual, error: success ? undefined : msg}
Compared(success, name, expected, actual, msg) ==
    [success |-> success, condition |-> name, expected |-> expected, actual |-> actual]
      @@ (IF success THEN <<>> ELSE [error |-> msg])

\* a waitForSelector wrapped in try/catch: resolves while the page is open and
\* the state is reached in time, else the catch branch builds the failure
Waited(p, name, selector, msg) ==
    {Return([success |-> FALSE, condition |-> name, expected |-> selector, error |-> msg])}
      \cup (IF p \in pageOpen
            THEN {Return([success |-> TRUE, condition |-> name, expected |-> selector])}
            ELSE {})

\* the awaited value v of an engine call, mapped through f when it resolves
Then(outcomes, f(_)) ==
    {IF o.kind = "return" THEN Return(f(o.value)) ELSE o : o \in outcomes}

checkAssertion(p, c, timeout) ==
    LET K == DOMAIN c IN
    IF "url_contains" \in K THEN
        LET expected == c.url_contains  actual == pageUrl[p] IN
        {Return(Compared(Includes(actual, expected), "url_contains", expected, actual,
                         <<"URL", actual, "does not contain", expected>>))}
    ELSE IF "url_equals" \in K THEN
        LET expected == c.url_equals  actual == pageUrl[p] IN
        {Return(Compared(actual = expected, "url_equals", expected, actual,
                         <<"URL", actual, "does not equal", expected>>))}
    ELSE IF "title_contains" \in K THEN
        LET expected == c.title_contains
            R(actual) == Compared(Includes(actual, expected), "title_contains", expected, actual,
                                  <<"Title", actual, "does not contain", expected>>)
        IN Then(EngineCall(p, {TitleOf(pageUrl[p])}), R)
    ELSE IF "title_equals" \in K THEN
        LET expected == c.title_equals
            R(actual) == Compared(actual = expected, "title_equals", expected, actual,
                                  <<"Title", actual, "does not equal", expected>>)
        IN Then(EngineCall(p, {TitleOf(pageUrl[p])}), R)
    ELSE IF "element_exists" \in K THEN
        Waited(p, "element_exists", c.element_exists,
               <<"Element", c.element_exists, "not found within", timeout, "ms">>)
    ELSE IF "element_not_exists" \in K THEN
        Waited(p, "element_not_exists", c.element_not_exists,
               <<"Element", c.element_not_exists, "still exists after", timeout, "ms">>)
    ELSE IF "element_visible" \in K THEN
        Waited(p, "element_visible", c.element_visible,
               <<"Element", c.element_visible, "not visible within", timeout, "ms">>)
    ELSE IF "element_text_contains" \in K THEN
        LET selector == c.element_text_contains.selector
            text == c.element_text_contains.text
            Texts == {<<>>, text}
        IN {Return([success |-> FALSE, condition |-> "element_text_contains", expected |-> text,
                    error |-> <<"Element", selector, "not found within", timeout, "ms">>])}
             \cup (IF p \in pageOpen
                   THEN {Return(Compared(Includes(actual, text), "element_text_contains", text, actual,
                                         <<"Element text", actual, "does not contain", text>>))
                           : actual \in Texts}
                   ELSE {})
    ELSE IF "element_count" \in K THEN
        LET expected == c.element_count.count
            R(actual) == Compared(actual = expected, "element_count", expected, actual,
                                  <<"Expected", expected, "elements matching",
                                    c.element_count.selector, "found", actual>>)
        IN Then(EngineCall(p, ElementCounts), R)
    ELSE IF "element_count_gte" \in K THEN
        LET expected == c.element_count_gte.count
            R(actual) == Compared(actual >= expected, "element_count_gte", expected, actual,
                                  <<"Expected at least", expected, "elements matching",
                                    c.element_count_gte.selector, "found", actual>>)
        IN Then(EngineCall(p, ElementCounts), R)
    ELSE IF "element_count_lte" \in K THEN
        LET expected == c.element_count_lte.count
            R(actual) == Compared(actual <= expected, "element_count_lte", expected, actual,
                                  <<"Expected at most", expected, "elements matching",
                                    c.element_count_lte.selector, "found", actual>>)
        IN Then(EngineCall(p, ElementCounts), R)
    ELSE {Return([success |-> FALSE, condition |-> "unknown",
                  error |-> <<"Unknown assertion condition: ", c>>])}

\* ---- checkAssertion, await by await, on a DOM that changes while it waits
\* the element is absent from the DOM, attached but hidden, or visible
Doms == [state : {"absent", "hidden", "visible"}, text : {<<>>, <<"t">>}]
TimeoutError == <<"Timeout exceeded">>

\* the conditions whose branch calls page.waitForSelector
Waiting(c) ==
    DOMAIN c \cap {"element_exists", "element_not_exists", "element_visible",
                   "element_text_contains"} # {}

\* the `state` option the branch of condition c passes to waitForSelector
WaitState(c) ==
    IF "element_not_exists" \in DOMAIN c THEN "detached"
    ELSE IF "element_visible" \in DOMAIN c THEN "visible"
    ELSE "attached"

\* waitForSelector's test of its `state` option on element state d
Satisfies(d, state) ==
    CASE state = "attached" -> d.state # "absent"
      [] state = "detached" -> d.state = "absent"
      [] state = "visible" -> d.state = "visible"

\* the record of a checkAssertion call: the page calls made so far, each with
\* the way it settled, and the outcome, pending while a page call is awaited
Checking(p, c, timeout, start, made, outcome, now) ==
    Some([fn |-> "checkAssertion", page |-> p, input |-> c, timeout |-> timeout,
          start |-> start, calls |-> made, outcome |-> outcome, settled |-> now])
PendingAt(m) == [kind |-> "pending", at |-> m]
IsPending(a, m) == a # None /\ "start" \in DOMAIN Get(a) /\ Get(a).outcome = PendingAt(m)

\* the result the branch of c returns when its try block completes (text:
\* with `actual` read), and the one its catch block returns
Passed(p, c, timeout, actual) ==
    CHOOSE o \in checkAssertion(p, c, timeout) :
        IF "element_text_contains" \in DOMAIN c
        THEN "actual" \in DOMAIN o.value /\ o.value.actual = actual
        ELSE o.value.success
Failed(p, c, timeout) ==
    CHOOSE o \in checkAssertion(p, c, timeout) :
        ~o.value.success /\ "actual" \notin DOMAIN o.value

\* waitForSelector resolved at a moment the element satisfies the state
Found(p, c, timeout, start, now) ==
    IF "element_text_contains" \in DOMAIN c
    THEN Checking(p, c, timeout, start, <<<<"waitForSelector", None>>>>, PendingAt("textContent"), now)
    ELSE Checking(p, c, timeout, start, <<<<"waitForSelector", None>>>>,
                  Passed(p, c, timeout, <<>>), now)

\* a caller awaits checkAssertion(page, c, timeout): the synchronous
\* conditions are decided from the page as it is; the others call
\* waitForSelector, which resolves at once when the element is in the state
AssertStart(p, c, timeout) ==
    /\ applied = None
    /\ IF ~Waiting(c)
       THEN \E o \in checkAssertion(p, c, timeout) :
              applied' = Checking(p, c, timeout, clock, <<>>, o, clock)
       ELSE IF p \in pageOpen /\ Satisfies(dom[p], WaitState(c))
       THEN applied' = Found(p, c, timeout, clock, clock)
       ELSE applied' = Checking(p, c, timeout, clock, <<>>, PendingAt("waitForSelector"),
                                clock)
    /\ UNCHANGED <<registryVars, pageVars, runVars, callerVars, dom>>

\* the page changes the element; a pending waitForSelector whose state is
\* reached resolves
DomChange(p, d) ==
    /\ p \in pageOpen
    /\ d # dom[p]
    /\ dom' = [dom EXCEPT ![p] = d]
    /\ IF /\ IsPending(applied, "waitForSelector")
          /\ Get(applied).page = p
          /\ Satisfies(d, WaitState(Get(applied).input))
       THEN applied' = Found(p, Get(applied).input, Get(applied).timeout, Get(applied).start,
                             clock)
       ELSE applied' = applied
    /\ UNCHANGED <<registryVars, pageVars, runVars, callerVars>>

\* a millisecond passes; a waitForSelector whose timeout has elapsed rejects
\* and the catch block returns the failure
Elapse ==
    /\ clock < 9 + MaxWait
    /\ clock' = clock + 1
    /\ IF /\ IsPending(applied, "waitForSelector")
          /\ clock' - Get(applied).start >= Get(applied).timeout
       THEN LET a == Get(applied) IN
            applied' = Checking(a.page, a.input, a.timeout, a.start,
                                <<<<"waitForSelector", Some(TimeoutError)>>>>,
                                Failed(a.page, a.input, a.timeout), clock + 1)
       ELSE applied' = applied
    /\ UNCHANGED <<dom, registryVars, callerVars, runVars, pageUrl, listeners, requests,
                   pageEvents, lastEvent>>

\* the pending page call rejects for a reason of the engine's (page closed or
\* crashed, malformed selector): the same catch block returns the failure
WaitRejects(m) ==
    /\ IsPending(applied, m)
    /\ LET a == Get(applied) IN
         applied' = Checking(a.page, a.input, a.timeout, a.start,
                             Append(a.calls, <<m, Some(EngineError)>>),
                             Failed(a.page, a.input, a.timeout), clock)
    /\ UNCHANGED <<registryVars, pageVars, runVars, callerVars, dom>>

\* element.textContent() resolved: `actual` is the text as it is now
TextRead ==
    /\ IsPending(applied, "textContent")
    /\ LET a == Get(applied) IN
         /\ a.page \in pageOpen
         /\ applied' = Checking(a.page, a.input, a.timeout, a.start,
                                Append(a.calls, <<"textContent", None>>),
                                Passed(a.page, a.input, a.timeout, dom[a.page].text), clock)
    /\ UNCHANGED <<registryVars, pageVars, runVars, callerVars, dom>>


\* a caller awaits checkAssertion(page, c) directly, with the default timeout
CheckAssertion(p, c) ==
    /\ applied = None
    /\ \E o \in checkAssertion(p, c, DEFAULT_TIMEOUT) :
          applied' = Some([fn |-> "checkAssertion", page |-> p, input |-> c,
                           calls |-> <<>>, outcome |-> o])
    /\ UNCHANGED <<registryVars, pageVars, runVars, callerVars, dom>>

describeCondition(c) ==
    LET K == DOMAIN c IN
    IF "url_contains" \in K THEN <<"URL contains", c.url_contains>>
    ELSE IF "url_equals" \in K THEN <<"URL equals", c.url_equals>>
    ELSE IF "title_contains" \in K THEN <<"title contains", c.title_contains>>
    ELSE IF "title_equals" \in K THEN <<"title equals", c.title_equals>>
    ELSE IF "element_exists" \in K THEN <<"element", c.element_exists, "exists">>
    ELSE IF "element_not_exists" \in K THEN <<"element", c.element_not_exists, "does not exist">>
    ELSE IF "element_visible" \in K THEN <<"element", c.element_visible, "is visible">>
    ELSE IF "element_text_contains" \in K THEN
        <<"element", c.element_text_contains.selector, "contains text", c.element_text_contains.text>>
    ELSE IF "element_count" \in K THEN
        <<"exactly", c.element_count.count, "elements matching", c.element_count.selector>>
    ELSE IF "element_count_gte" \in K THEN
        <<"at least", c.element_count_gte.count, "elements matching", c.element_count_gte.selector>>
    ELSE IF "element_count_lte" \in K THEN
        <<"at most", c.element_count_lte.count, "elements matching", c.element_count_lte.selector>>
    ELSE <<"unknown condition">>

\* ------------------------------------------- tools/run-sequence.ts: steps
executeAction(p, step) ==
    LET a == [type |-> step.action]
               @@ [f \in DOMAIN step \cap {"selector", "value", "url"} |-> step[f]]
        R(res) == IF "error" \in DOMAIN res /\ res.error # <<>>
                  THEN [success |-> FALSE, error |-> res.error]
                  ELSE [success |-> TRUE, data |-> res]
    IN Then(performAction(p, a), R)

executeAssert(p, step) ==
    LET R(res) == IF ~res.success
                  THEN [success |-> FALSE,
                        error |-> IF "error" \in DOMAIN res /\ res.error # <<>>
                                  THEN res.error
                                  ELSE <<"Assertion failed: ", describeCondition(step.condition)>>,
                        data |-> res]
                  ELSE [success |-> TRUE, data |-> res]
    IN Then(checkAssertion(p, step.condition, DEFAULT_TIMEOUT), R)

executeQuery(p, step) ==
    IF step.query = "overview" THEN
        LET R(overview) == [success |-> TRUE, data |-> overview]
        IN Then(EngineCall(p, {[title |-> TitleOf(pageUrl[p]), url |-> pageUrl[p]]}), R)
    ELSE IF step.query = "screenshot" THEN
        LET R(size) == [success |-> TRUE,
                        data |-> [path |-> <<"sequence-", clock, ".png">>, size |-> size]]
        IN Then(EngineCall(p, {1}), R)
    ELSE {Return([success |-> FALSE, error |-> <<"Unknown query type: ", step.query>>])}

executeStep(p, step) ==
    CASE step.type = "action" -> executeAction(p, step)
      [] step.type = "assert" -> executeAssert(p, step)
      [] step.type = "query" -> executeQuery(p, step)
      [] OTHER -> {Return([success |-> FALSE, error |-> <<"Unknown step type: ", step.type>>])}

\* ---------------------------------------- tools/run-sequence.ts: handler
\* (mutant) the timestamp is printed without padding to a fixed width
toISOString_unpadded(t) == IF t < 10 THEN <<t>> ELSE <<t \div 10, t % 10>>

\* new Date().toISOString(): fixed-width decimal digits, most significant first
toISOString(t) == <<t \div 10, t % 10>>

\* options?.console?.enabled, options?.network?.enabled
Enabled(options, collector) ==
    /\ collector \in DOMAIN options
    /\ "enabled" \in DOMAIN options[collector]
    /\ options[collector].enabled

\* (mutant) the network listeners are attached under the console switch
HandlersOf_coupled(r, options) ==
    (IF Enabled(options, "console")
     THEN <<<<r, "console">>, <<r, "request">>, <<r, "response">>, <<r, "requestfailed">>>>
     ELSE <<>>)
      \o <<<<r, "framenavigated">>>>

\* the listeners one invocation attaches, in the order of the page.on calls
HandlersOf(r, options) ==
    (IF Enabled(options, "console") THEN <<<<r, "console">>>> ELSE <<>>)
      \o (IF Enabled(options, "network")
          THEN <<<<r, "request">>, <<r, "response">>, <<r, "requestfailed">>>>
          ELSE <<>>)
      \o <<<<r, "framenavigated">>>>

Range(s) == {s[k] : k \in DOMAIN s}

\* page.on for each handler of hs
Attach(ls, hs) == ls \o hs

\* (mutant) the finally block forgets page.off('response', ...)
Detach_keepResponse(ls, hs) ==
    SelectSeq(ls, LAMBDA h : h \notin Range(hs) \/ h[2] = "response")

\* (mutant) the finally block forgets page.off('framenavigated', ...)
Detach_keepNavigation(ls, hs) ==
    SelectSeq(ls, LAMBDA h : h \notin Range(hs) \/ h[2] = "framenavigated")

\* (mutant) page.removeAllListeners(channel) for each channel of hs
Detach_channels(ls, hs) ==
    SelectSeq(ls, LAMBDA h : h[2] \notin {hs[k][2] : k \in DOMAIN hs})

\* page.off for each handler of hs
Detach(ls, hs) == SelectSeq(ls, LAMBDA h : h \notin Range(hs))

\* (mutant) page callbacks run in the middle of the handler's synchronous code
SyncLocations_preempted == {}

\* no handler is in the middle of synchronous code
SyncLocations == {"finally", "return"}
Quiescent == \A r \in Runs : pc[r] \notin SyncLocations

steps(r) == params[r].steps

\* (mutant) the loop header reads `i < steps.length - 1`
LoopHead_short(r, i) == IF i < Len(steps(r)) - 1 THEN "dispatch" ELSE "finally"

\* the location after the loop header `i < steps.length` for loop variable i
LoopHead(r, i) == IF i < Len(steps(r)) THEN "dispatch" ELSE "finally"

\* history of the executeStep calls: a call of executeStep for index i, and
\* the way the last call settled
Called(h, location, i) ==
    IF location = "dispatch"
    THEN Append(h, [index |-> i, outcome |-> "pending", message |-> <<>>])
    ELSE h
Settled(h, outcome, message) ==
    [h EXCEPT ![Len(h)] = [index |-> @.index, outcome |-> outcome, message |-> message]]

\* the session does not exist: the error payload
InvokeNotFound(r, sid, ss, options) ==
    /\ pc[r] = "idle"
    /\ Quiescent
    /\ getSession(sid) = None
    /\ params' = [params EXCEPT ![r] = [session |-> sid, steps |-> ss, options |-> options]]
    /\ result' = [result EXCEPT ![r] =
                    Some([error |-> <<"Session '", sid, "' not found">>,
                          availableSessions |-> listSessions])]
    /\ pc' = [pc EXCEPT ![r] = "done"]
    /\ UNCHANGED <<applied, dom, registryVars, pageVars, callerVars, page, events, lastUrl,
                   pendingRequests, idx, startTime, completed, failedAt,
                   failureReason, finalUrl, dispatches>>

\* the session exists: set up, attach the listeners, enter the loop
Invoke(r, sid, ss, options) ==
    /\ pc[r] = "idle"
    /\ Quiescent
    /\ getSession(sid) # None
    /\ LET p == Get(getSession(sid)).page IN
        /\ params' = [params EXCEPT ![r] = [session |-> sid, steps |-> ss, options |-> options]]
        /\ page' = [page EXCEPT ![r] = p]
        /\ events' = [events EXCEPT ![r] = <<>>]
        /\ lastUrl' = [lastUrl EXCEPT ![r] = pageUrl[p]]
        /\ pendingRequests' = [pendingRequests EXCEPT ![r] = {}]
        /\ listeners' = [listeners EXCEPT ![p] = Attach(@, HandlersOf(r, options))]
        /\ completed' = [completed EXCEPT ![r] = 0]
        /\ failedAt' = [failedAt EXCEPT ![r] = None]
        /\ failureReason' = [failureReason EXCEPT ![r] = None]
        /\ idx' = [idx EXCEPT ![r] = 0]
        /\ startTime' = [startTime EXCEPT ![r] = IF 0 < Len(ss) THEN clock ELSE @]
        /\ pc' = [pc EXCEPT ![r] = IF 0 < Len(ss) THEN "dispatch" ELSE "finally"]
        /\ dispatches' = [dispatches EXCEPT ![r] = Called(<<>>, pc'[r], 0)]
    /\ UNCHANGED <<applied, dom, registryVars, callerVars, pageUrl, requests, clock, pageEvents, lastEvent,
                   finalUrl, result>>

\* (mutant) the Step event carries the step's ordinal, i + 1
StepEvent_ordinal(i, step, res, t0) ==
    [type |-> "step", index |-> i + 1, step |-> step,
     result |-> [success |-> res.success, duration_ms |-> clock - t0]
                  @@ [f \in DOMAIN res \cap {"data", "error"} |-> res[f]],
     timestamp |-> toISOString(clock)]

StepEvent(i, step, res, t0) ==
    [type |-> "step", index |-> i, step |-> step,
     result |-> [success |-> res.success, duration_ms |-> clock - t0]
                  @@ [f \in DOMAIN res \cap {"data", "error"} |-> res[f]],
     timestamp |-> toISOString(clock)]

\* the outcomes the dispatch in flight can have
Dispatched(r) ==
    IF pc[r] = "dispatch" THEN executeStep(page[r], steps(r)[idx[r] + 1]) ELSE {}

\* the outcomes the final page.title() in flight can have
TitleRead(r) ==
    IF pc[r] = "title" THEN EngineCall(page[r], {TitleOf(pageUrl[page[r]])}) ELSE {}

\* (mutant) the loop variable is not advanced after the first success: that
\* step is dispatched once more
StepSucceeds_retry(r, o) ==
    /\ pc[r] = "dispatch"
    /\ Quiescent
    /\ o \in Dispatched(r)
    /\ o.kind = "return"
    /\ o.value.success
    /\ events' = [events EXCEPT ![r] =
                    Append(@, StepEvent(idx[r], steps(r)[idx[r] + 1], o.value, startTime[r]))]
    /\ completed' = [completed EXCEPT ![r] = @ + 1]
    /\ idx' = [idx EXCEPT ![r] = IF completed[r] = 0 THEN @ ELSE @ + 1]
    /\ startTime' = [startTime EXCEPT ![r] =
                       IF LoopHead(r, idx'[r]) = "dispatch" THEN clock ELSE @]
    /\ pc' = [pc EXCEPT ![r] = LoopHead(r, idx'[r])]
    /\ dispatches' = [dispatches EXCEPT ![r] = Called(Settled(@, "ok", <<>>), pc'[r], idx'[r])]
    /\ UNCHANGED <<applied, dom, registryVars, pageVars, callerVars, params, page, lastUrl,
                   pendingRequests, failedAt, failureReason, finalUrl, result>>

\* executeStep resolved with success: record the event, go on with i + 1
StepSucceeds(r, o) ==
    /\ pc[r] = "dispatch"
    /\ Quiescent
    /\ o \in Dispatched(r)
    /\ o.kind = "return"
    /\ o.value.success
    /\ events' = [events EXCEPT ![r] =
                    Append(@, StepEvent(idx[r], steps(r)[idx[r] + 1], o.value, startTime[r]))]
    /\ completed' = [completed EXCEPT ![r] = @ + 1]
    /\ idx' = [idx EXCEPT ![r] = @ + 1]
    /\ startTime' = [startTime EXCEPT ![r] =
                       IF LoopHead(r, idx[r] + 1) = "dispatch" THEN clock ELSE @]
    /\ pc' = [pc EXCEPT ![r] = LoopHead(r, idx[r] + 1)]
    /\ dispatches' = [dispatches EXCEPT ![r] = Called(Settled(@, "ok", <<>>), pc'[r], idx'[r])]
    /\ UNCHANGED <<applied, dom, registryVars, pageVars, callerVars, params, page, lastUrl,
                   pendingRequests, failedAt, failureReason, finalUrl, result>>

\* (mutant) no `break` after a result that is not successful: the loop goes on
StepFails_continue(r, o) ==
    /\ pc[r] = "dispatch"
    /\ Quiescent
    /\ o \in Dispatched(r)
    /\ o.kind = "return"
    /\ ~o.value.success
    /\ events' = [events EXCEPT ![r] =
                    Append(@, StepEvent(idx[r], steps(r)[idx[r] + 1], o.value, startTime[r]))]
    /\ failedAt' = [failedAt EXCEPT ![r] = Some(idx[r])]
    /\ failureReason' = [failureReason EXCEPT ![r] =
                           IF "error" \in DOMAIN o.value /\ o.value.error # <<>>
                           THEN Some(o.value.error) ELSE Some(<<"Step failed">>)]
    /\ completed' = [completed EXCEPT ![r] = @ + 1]
    /\ idx' = [idx EXCEPT ![r] = @ + 1]
    /\ startTime' = [startTime EXCEPT ![r] =
                       IF LoopHead(r, idx[r] + 1) = "dispatch" THEN clock ELSE @]
    /\ pc' = [pc EXCEPT ![r] = LoopHead(r, idx[r] + 1)]
    /\ dispatches' = [dispatches EXCEPT ![r] =
                        Called(Settled(@, "failed", <<>>), pc'[r], idx'[r])]
    /\ UNCHANGED <<applied, dom, registryVars, pageVars, callerVars, params, page, lastUrl,
                   pendingRequests, finalUrl, result>>

\* (mutant) `completed++` sits before the check of result.success
StepFails_counted(r, o) ==
    /\ pc[r] = "dispatch"
    /\ Quiescent
    /\ o \in Dispatched(r)
    /\ o.kind = "return"
    /\ ~o.value.success
    /\ events' = [events EXCEPT ![r] =
                    Append(@, StepEvent(idx[r], steps(r)[idx[r] + 1], o.value, startTime[r]))]
    /\ completed' = [completed EXCEPT ![r] = @ + 1]
    /\ failedAt' = [failedAt EXCEPT ![r] = Some(idx[r])]
    /\ failureReason' = [failureReason EXCEPT ![r] =
                           IF "error" \in DOMAIN o.value /\ o.value.error # <<>>
                           THEN Some(o.value.error) ELSE Some(<<"Step failed">>)]
    /\ pc' = [pc EXCEPT ![r] = "finally"]
    /\ dispatches' = [dispatches EXCEPT ![r] = Settled(@, "failed", <<>>)]
    /\ UNCHANGED <<applied, dom, registryVars, pageVars, callerVars, params, page, lastUrl,
                   pendingRequests, idx, startTime, finalUrl, result>>

\* (mutant) failureReason = 'Step failed', whatever the result's error is
StepFails_generic(r, o) ==
    /\ pc[r] = "dispatch"
    /\ Quiescent
    /\ o \in Dispatched(r)
    /\ o.kind = "return"
    /\ ~o.value.success
    /\ events' = [events EXCEPT ![r] =
                    Append(@, StepEvent(idx[r], steps(r)[idx[r] + 1], o.value, startTime[r]))]
    /\ failedAt' = [failedAt EXCEPT ![r] = Some(idx[r])]
    /\ failureReason' = [failureReason EXCEPT ![r] = Some(<<"Step failed">>)]
    /\ pc' = [pc EXCEPT ![r] = "finally"]
    /\ dispatches' = [dispatches EXCEPT ![r] = Settled(@, "failed", <<>>)]
    /\ UNCHANGED <<applied, dom, registryVars, pageVars, callerVars, params, page, lastUrl,
                   pendingRequests, idx, startTime, completed, finalUrl, result>>

\* executeStep resolved with a result that is not successful: record, break
StepFails(r, o) ==
    /\ pc[r] = "dispatch"
    /\ Quiescent
    /\ o \in Dispatched(r)
    /\ o.kind = "return"
    /\ ~o.value.success
    /\ events' = [events EXCEPT ![r] =
                    Append(@, StepEvent(idx[r], steps(r)[idx[r] + 1], o.value, startTime[r]))]
    /\ failedAt' = [failedAt EXCEPT ![r] = Some(idx[r])]
    /\ failureReason' = [failureReason EXCEPT ![r] =
                           IF "error" \in DOMAIN o.value /\ o.value.error # <<>>
                           THEN Some(o.value.error) ELSE Some(<<"Step failed">>)]
    /\ pc' = [pc EXCEPT ![r] = "finally"]
    /\ dispatches' = [dispatches EXCEPT ![r] = Settled(@, "failed", <<>>)]
    /\ UNCHANGED <<applied, dom, registryVars, pageVars, callerVars, params, page, lastUrl,
                   pendingRequests, idx, startTime, completed, finalUrl, result>>

\* (mutant) the inner catch counts the step as completed
StepThrows_counted(r, o) ==
    /\ pc[r] = "dispatch"
    /\ Quiescent
    /\ o \in Dispatched(r)
    /\ o.kind = "throw"
    /\ events' = [events EXCEPT ![r] =
                    Append(@, StepEvent(idx[r], steps(r)[idx[r] + 1],
                                        [success |-> FALSE, error |-> o.message],
                                        startTime[r]))]
    /\ completed' = [completed EXCEPT ![r] = @ + 1]
    /\ failedAt' = [failedAt EXCEPT ![r] = Some(idx[r])]
    /\ failureReason' = [failureReason EXCEPT ![r] = Some(o.message)]
    /\ pc' = [pc EXCEPT ![r] = "finally"]
    /\ dispatches' = [dispatches EXCEPT ![r] = Settled(@, "threw", o.message)]
    /\ UNCHANGED <<applied, dom, registryVars, pageVars, callerVars, params, page, lastUrl,
                   pendingRequests, idx, startTime, finalUrl, result>>

\* (mutant) no inner catch: the finally block runs and the rejection leaves
\* the handler
StepThrows_uncaught(r, o) ==
    /\ pc[r] = "dispatch"
    /\ Quiescent
    /\ o \in Dispatched(r)
    /\ o.kind = "throw"
    /\ listeners' = [listeners EXCEPT ![page[r]] =
                       Detach(@, HandlersOf(r, params[r].options))]
    /\ pc' = [pc EXCEPT ![r] = "raised"]
    /\ dispatches' = [dispatches EXCEPT ![r] = Settled(@, "threw", o.message)]
    /\ UNCHANGED <<applied, dom, registryVars, callerVars, pageUrl, requests, clock, pageEvents, lastEvent,
                   params, page, events, lastUrl, pendingRequests, idx, startTime,
                   completed, failedAt, failureReason, finalUrl, result>>

\* executeStep rejected: the inner catch records the failing event, break
StepThrows(r, o) ==
    /\ pc[r] = "dispatch"
    /\ Quiescent
    /\ o \in Dispatched(r)
    /\ o.kind = "throw"
    /\ events' = [events EXCEPT ![r] =
                    Append(@, StepEvent(idx[r], steps(r)[idx[r] + 1],
                                        [success |-> FALSE, error |-> o.message],
                                        startTime[r]))]
    /\ failedAt' = [failedAt EXCEPT ![r] = Some(idx[r])]
    /\ failureReason' = [failureReason EXCEPT ![r] = Some(o.message)]
    /\ pc' = [pc EXCEPT ![r] = "finally"]
    /\ dispatches' = [dispatches EXCEPT ![r] = Settled(@, "threw", o.message)]
    /\ UNCHANGED <<applied, dom, registryVars, pageVars, callerVars, params, page, lastUrl,
                   pendingRequests, idx, startTime, completed, finalUrl, result>>

\* (mutant) the listeners are left attached while the final state is read
Finally_attached(r) ==
    /\ pc[r] = "finally"
    /\ pc' = [pc EXCEPT ![r] = "return"]
    /\ UNCHANGED <<applied, dom, registryVars, pageVars, callerVars, params, page, events, lastUrl,
                   pendingRequests, idx, startTime, completed, failedAt,
                   failureReason, finalUrl, result, dispatches>>

\* finally: clean up listeners
Finally(r) ==
    /\ pc[r] = "finally"
    /\ listeners' = [listeners EXCEPT ![page[r]] =
                       Detach(@, HandlersOf(r, params[r].options))]
    /\ pc' = [pc EXCEPT ![r] = "return"]
    /\ UNCHANGED <<applied, dom, registryVars, callerVars, pageUrl, requests, clock, pageEvents, lastEvent,
                   params, page, events, lastUrl, pendingRequests, idx, startTime,
                   completed, failedAt, failureReason, finalUrl, result, dispatches>>

\* return { ..., final_state: { url: page.url(), title: await page.title() } }
\* up to the await
ReturnStart(r) ==
    /\ pc[r] = "return"
    /\ finalUrl' = [finalUrl EXCEPT ![r] = Some(pageUrl[page[r]])]
    /\ pc' = [pc EXCEPT ![r] = "title"]
    /\ UNCHANGED <<applied, dom, registryVars, pageVars, callerVars, params, page, events, lastUrl,
                   pendingRequests, idx, startTime, completed, failedAt,
                   failureReason, result, dispatches>>

SequenceResult(r, title) ==
    [success |-> failedAt[r] = None,
     completed |-> completed[r],
     total |-> Len(steps(r)),
     events |-> events[r],
     final_state |-> [url |-> Get(finalUrl[r]), title |-> title]]
      @@ (IF IsSome(failedAt[r]) THEN [failed_at |-> Get(failedAt[r])] ELSE <<>>)
      @@ (IF IsSome(failureReason[r]) THEN [failure_reason |-> Get(failureReason[r])] ELSE <<>>)

\* page.title() resolved: the result is returned
TitleResolves(r, o) ==
    /\ pc[r] = "title"
    /\ Quiescent
    /\ o \in TitleRead(r)
    /\ o.kind = "return"
    /\ result' = [result EXCEPT ![r] = Some(SequenceResult(r, o.value))]
    /\ pc' = [pc EXCEPT ![r] = "done"]
    /\ UNCHANGED <<applied, dom, registryVars, pageVars, callerVars, params, page, events, lastUrl,
                   pendingRequests, idx, startTime, completed, failedAt,
                   failureReason, finalUrl, dispatches>>

\* page.title() rejected: nothing catches it, the handler's promise rejects
TitleRejects(r, o) ==
    /\ pc[r] = "title"
    /\ Quiescent
    /\ o \in TitleRead(r)
    /\ o.kind = "throw"
    /\ pc' = [pc EXCEPT ![r] = "raised"]
    /\ UNCHANGED <<applied, dom, registryVars, pageVars, callerVars, params, page, events, lastUrl,
                   pendingRequests, idx, startTime, completed, failedAt,
                   failureReason, finalUrl, result, dispatches>>

\* ------------------------------------ tools/run-sequence.ts: collectors
\* (mutant) info ranks with error
consoleLevelPriority_info ==
    [debug |-> 0, log |-> 1, info |-> 4, warn |-> 3, warning |-> 3, error |-> 4]

consoleLevelPriority ==
    [debug |-> 0, log |-> 1, info |-> 2, warn |-> 3, warning |-> 3, error |-> 4]

\* a filter string is a tuple of characters; the filters used here are
\* literals, except that "(" alone does not compile (new RegExp throws)
RegExpCompiles(filter) == "(" \notin Range(filter)
RegExpTest(filter, text) == Includes(text, filter)

\* (mutant) the level test reads `msgPriority <= minPriority`
shouldCaptureConsole_strict(level, message, o) ==
    IF ~(IsSome(o) /\ "enabled" \in DOMAIN Get(o) /\ Get(o).enabled) THEN FALSE
    ELSE LET opt == Get(o)
             minLevel == IF "level" \in DOMAIN opt /\ opt.level # "" THEN opt.level ELSE "all"
             minPriority == IF minLevel = "warn" THEN 3 ELSE IF minLevel = "error" THEN 4 ELSE 0
             msgPriority == IF level \in DOMAIN consoleLevelPriority
                            THEN consoleLevelPriority[level] ELSE 1
         IN IF minLevel # "all" /\ msgPriority <= minPriority THEN FALSE
            ELSE IF /\ "filter" \in DOMAIN opt /\ opt.filter # <<>>
                    /\ RegExpCompiles(opt.filter)
                    /\ ~RegExpTest(opt.filter, message) THEN FALSE
            ELSE TRUE

\* o is options?.console: None or Some(ConsoleCapture)
shouldCaptureConsole(level, message, o) ==
    IF ~(IsSome(o) /\ "enabled" \in DOMAIN Get(o) /\ Get(o).enabled) THEN FALSE
    ELSE LET opt == Get(o)
             minLevel == IF "level" \in DOMAIN opt /\ opt.level # "" THEN opt.level ELSE "all"
             minPriority == IF minLevel = "warn" THEN 3 ELSE IF minLevel = "error" THEN 4 ELSE 0
             msgPriority == IF level \in DOMAIN consoleLevelPriority
                            THEN consoleLevelPriority[level] ELSE 1
         IN IF minLevel # "all" /\ msgPriority < minPriority THEN FALSE
            ELSE IF /\ "filter" \in DOMAIN opt /\ opt.filter # <<>>
                    /\ RegExpCompiles(opt.filter)
                    /\ ~RegExpTest(opt.filter, message) THEN FALSE
            ELSE TRUE

\* (mutant) the filter is not consulted
shouldCaptureNetwork_unfiltered(url, o) ==
    IF ~(IsSome(o) /\ "enabled" \in DOMAIN Get(o) /\ Get(o).enabled) THEN FALSE
    ELSE TRUE

\* (mutant) the catch block returns false: an invalid filter rejects every URL
shouldCaptureNetwork_rejectInvalid(url, o) ==
    IF ~(IsSome(o) /\ "enabled" \in DOMAIN Get(o) /\ Get(o).enabled) THEN FALSE
    ELSE LET opt == Get(o)
         IN IF /\ "filter" \in DOMAIN opt /\ opt.filter # <<>>
               /\ (~RegExpCompiles(opt.filter) \/ ~RegExpTest(opt.filter, url)) THEN FALSE
            ELSE TRUE

\* o is options?.network: None or Some(NetworkCapture)
shouldCaptureNetwork(url, o) ==
    IF ~(IsSome(o) /\ "enabled" \in DOMAIN Get(o) /\ Get(o).enabled) THEN FALSE
    ELSE LET opt == Get(o)
         IN IF /\ "filter" \in DOMAIN opt /\ opt.filter # <<>>
               /\ RegExpCompiles(opt.filter)
               /\ ~RegExpTest(opt.filter, url) THEN FALSE
            ELSE TRUE

Capture(r, collector) ==
    IF collector \in DOMAIN params[r].options
    THEN Some(params[r].options[collector]) ELSE None

\* the runs whose handler for channel ch is attached to page p, in call order
Listening(p, ch) ==
    LET hs == SelectSeq(listeners[p], LAMBDA h : h[2] = ch)
    IN [k \in DOMAIN hs |-> hs[k][1]]

\* (mutant) events.unshift instead of events.push
consoleHandler_unshift(r, level, message) ==
    IF shouldCaptureConsole(level, message, Capture(r, "console"))
    THEN <<[type |-> "console", level |-> level, message |-> message,
            timestamp |-> toISOString(clock)]>> \o events[r]
    ELSE events[r]

\* events after consoleHandler of run r has handled the message
consoleHandler(r, level, message) ==
    IF shouldCaptureConsole(level, message, Capture(r, "console"))
    THEN Append(events[r], [type |-> "console", level |-> level, message |-> message,
                            timestamp |-> toISOString(clock)])
    ELSE events[r]

\* the id requestHandler of run r gives a request: url, Date.now() and a
\* random number, which no other call draws
RequestId(r, q, url) == <<url, clock, <<r, q>>>>

\* pendingRequests after requestHandler of run r has handled request q
requestHandler(r, q, url, method) ==
    IF shouldCaptureNetwork(url, Capture(r, "network"))
    THEN pendingRequests[r] \cup
           {[id |-> RequestId(r, q, url), start |-> clock, method |-> method, url |-> url]}
    ELSE pendingRequests[r]

\* req._seqRequestId after the request handlers of rs (in order) have run
RECURSIVE Stashed(_, _, _, _)
Stashed(rs, q, url, old) ==
    IF rs = <<>> THEN old
    ELSE Stashed(Tail(rs), q, url,
                 IF shouldCaptureNetwork(url, Capture(Head(rs), "network"))
                 THEN Some(RequestId(Head(rs), q, url)) ELSE old)

\* the pending entry that responseHandler / requestFailedHandler of run r
\* finds for request q: a set with at most one element
\* (mutant) the handlers test `pendingRequests.size > 0`, not the request's id
Pending_any(r, q) == pendingRequests[r]

Pending(r, q) ==
    {e \in pendingRequests[r] :
        IsSome(requests[q].seqRequestId) /\ e.id = Get(requests[q].seqRequestId)}

NetworkEvent(e, outcome) ==
    [type |-> "network", method |-> e.method, url |-> e.url,
     timing |-> clock - e.start, timestamp |-> toISOString(clock)] @@ outcome

\* events after responseHandler / requestFailedHandler of run r
settledHandler(r, q, outcome) ==
    IF Pending(r, q) # {}
    THEN Append(events[r], NetworkEvent(CHOOSE e \in Pending(r, q) : TRUE, outcome))
    ELSE events[r]

\* (mutant) no test of `newUrl !== lastUrl`
frameNavigatedHandler_every(r, frame, newUrl) ==
    IF frame = "main"
    THEN <<Append(events[r], [type |-> "navigation", from |-> lastUrl[r], to |-> newUrl,
                              timestamp |-> toISOString(clock)]),
           newUrl>>
    ELSE <<events[r], lastUrl[r]>>

\* (mutant) lastUrl is not assigned
frameNavigatedHandler_stale(r, frame, newUrl) ==
    IF frame = "main" /\ newUrl # lastUrl[r]
    THEN <<Append(events[r], [type |-> "navigation", from |-> lastUrl[r], to |-> newUrl,
                              timestamp |-> toISOString(clock)]),
           lastUrl[r]>>
    ELSE <<events[r], lastUrl[r]>>

\* <<events, lastUrl>> after frameNavigatedHandler of run r; the page's URL
\* is already newUrl when the handler runs
frameNavigatedHandler(r, frame, newUrl) ==
    IF frame = "main" /\ newUrl # lastUrl[r]
    THEN <<Append(events[r], [type |-> "navigation", from |-> lastUrl[r], to |-> newUrl,
                              timestamp |-> toISOString(clock)]),
           newUrl>>
    ELSE <<events[r], lastUrl[r]>>

\* ------------------------------------------------------------ page events
\* msg.type() and msg.text() of the console messages the page emits
ConsoleInputs == {<<"log", <<"a">>>>, <<"error", <<"b">>>>}
Methods == {"GET"}
Statuses == {200}
Frames == {"main", "sub"}
NoRequest == [state |-> "none"]

\* lastEvent while nobody records the events the pages emit
NotRecorded == <<0, 0>>

\* page p emits event e to the listeners of its channel
PageEvent(p, e) ==
    /\ Quiescent
    /\ p \in pageOpen
    /\ pageEvents' = pageEvents + 1
    /\ lastEvent' = IF lastEvent = NotRecorded THEN lastEvent ELSE Some([page |-> p] @@ e)

RunsIn(s) == {s[k] : k \in DOMAIN s}

\* the page emits 'console'
ConsoleMessage(p, level, message) ==
    /\ PageEvent(p, [channel |-> "console", level |-> level, message |-> message])
    /\ events' = [r \in Runs |->
                    IF r \in RunsIn(Listening(p, "console"))
                    THEN consoleHandler(r, level, message) ELSE events[r]]
    /\ UNCHANGED <<applied, dom, registryVars, callerVars, pageUrl, listeners, requests, clock,
                   pc, params, page, lastUrl, pendingRequests, idx, startTime,
                   completed, failedAt, failureReason, finalUrl, result, dispatches>>

\* the page emits 'request' for a new request object q
RequestIssued(p, q, url, method) ==
    /\ PageEvent(p, [channel |-> "request", request |-> q])
    /\ requests[q].state = "none"
    /\ \A q2 \in ReqIds : q2 < q => requests[q2].state # "none"
    /\ pendingRequests' = [r \in Runs |->
                             IF r \in RunsIn(Listening(p, "request"))
                             THEN requestHandler(r, q, url, method) ELSE pendingRequests[r]]
    /\ requests' = [requests EXCEPT ![q] =
                      [state |-> "open", page |-> p, url |-> url, method |-> method,
                       seqRequestId |-> Stashed(Listening(p, "request"), q, url, None)]]
    /\ UNCHANGED <<applied, dom, registryVars, callerVars, pageUrl, listeners, clock,
                   pc, params, page, events, lastUrl, idx, startTime,
                   completed, failedAt, failureReason, finalUrl, result, dispatches>>

\* (mutant) responseHandler leaves the entry in pendingRequests
ResponseReceived_keep(q, status) ==
    /\ requests[q].state = "open"
    /\ PageEvent(requests[q].page,
                 [channel |-> "response", request |-> q, status |-> status])
    /\ events' = [r \in Runs |->
                    IF r \in RunsIn(Listening(requests[q].page, "response"))
                    THEN settledHandler(r, q, [status |-> status]) ELSE events[r]]
    /\ pendingRequests' = pendingRequests
    /\ requests' = [requests EXCEPT ![q].state = "responded"]
    /\ UNCHANGED <<applied, dom, registryVars, callerVars, pageUrl, listeners, clock,
                   pc, params, page, lastUrl, idx, startTime,
                   completed, failedAt, failureReason, finalUrl, result, dispatches>>

\* the page emits 'response' for request q
ResponseReceived(q, status) ==
    /\ requests[q].state = "open"
    /\ PageEvent(requests[q].page,
                 [channel |-> "response", request |-> q, status |-> status])
    /\ events' = [r \in Runs |->
                    IF r \in RunsIn(Listening(requests[q].page, "response"))
                    THEN settledHandler(r, q, [status |-> status]) ELSE events[r]]
    /\ pendingRequests' = [r \in Runs |->
                             IF r \in RunsIn(Listening(requests[q].page, "response"))
                             THEN pendingRequests[r] \ Pending(r, q) ELSE pendingRequests[r]]
    /\ requests' = [requests EXCEPT ![q].state = "responded"]
    /\ UNCHANGED <<applied, dom, registryVars, callerVars, pageUrl, listeners, clock,
                   pc, params, page, lastUrl, idx, startTime,
                   completed, failedAt, failureReason, finalUrl, result, dispatches>>

\* the page emits 'requestfailed' for request q, before or after its response;
\* errorText is req.failure()?.errorText
RequestFailed(q, errorText) ==
    /\ requests[q].state \in {"open", "responded"}
    /\ PageEvent(requests[q].page,
                 [channel |-> "requestfailed", request |-> q, errorText |-> errorText])
    /\ events' = [r \in Runs |->
                    IF r \in RunsIn(Listening(requests[q].page, "requestfailed"))
                    THEN settledHandler(r, q,
                           [error |-> IF errorText # <<>> THEN errorText
                                      ELSE <<"Request failed">>])
                    ELSE events[r]]
    /\ pendingRequests' = [r \in Runs |->
                             IF r \in RunsIn(Listening(requests[q].page, "requestfailed"))
                             THEN pendingRequests[r] \ Pending(r, q) ELSE pendingRequests[r]]
    /\ requests' = [requests EXCEPT ![q].state = "failed"]
    /\ UNCHANGED <<applied, dom, registryVars, callerVars, pageUrl, listeners, clock,
                   pc, params, page, lastUrl, idx, startTime,
                   completed, failedAt, failureReason, finalUrl, result, dispatches>>

\* the page emits 'framenavigated'; a navigation of the main frame sets page.url()
FrameNavigated(p, frame, newUrl) ==
    /\ PageEvent(p, [channel |-> "framenavigated", frame |-> frame, url |-> newUrl])
    /\ pageUrl' = [pageUrl EXCEPT ![p] = IF frame = "main" THEN newUrl ELSE @]
    /\ events' = [r \in Runs |->
                    IF r \in RunsIn(Listening(p, "framenavigated"))
                    THEN frameNavigatedHandler(r, frame, pageUrl'[p])[1] ELSE events[r]]
    /\ lastUrl' = [r \in Runs |->
                    IF r \in RunsIn(Listening(p, "framenavigated"))
                    THEN frameNavigatedHandler(r, frame, pageUrl'[p])[2] ELSE lastUrl[r]]
    /\ UNCHANGED <<applied, dom, registryVars, callerVars, listeners, requests, clock,
                   pc, params, page, pendingRequests, idx, startTime,
                   completed, failedAt, failureReason, finalUrl, result, dispatches>>

\* time passes
Tick ==
    /\ clock < 9 + MaxClock
    /\ clock' = clock + 1
    /\ UNCHANGED <<applied, dom, registryVars, callerVars, runVars, pageUrl, listeners, requests,
                   pageEvents, lastEvent>>

\* -------------------------------- session.ts, tools/open-session.ts
isConnected(b) == b \in browserAlive

NewCall(c) ==
    /\ cpc[c] = "idle"
    /\ Quiescent
    /\ calls < MaxCalls
    /\ calls' = calls + 1

\* Map.set: a key that is present keeps its position and gets the new value
MapSet(m, id, v) ==
    IF MapHas(m, id)
    THEN [k \in DOMAIN m |-> IF m[k].id = id THEN v ELSE m[k]]
    ELSE Append(m, v)

\* (mutant) sessions.clear()
MapDelete_all(m, id) == <<>>

\* Map.delete
MapDelete(m, id) == SelectSeq(m, LAMBDA e : e.id # id)

\* open_session handler: the session exists already
OpenExists(c, id, url) ==
    /\ NewCall(c)
    /\ getSession(id) # None
    /\ cargs' = [cargs EXCEPT ![c] = [id |-> id, url |-> url]]
    /\ cresult' = [cresult EXCEPT ![c] =
                     Some([error |-> <<"Session '", id, "' already exists. Use close_session to close it first, or choose a different name.">>])]
    /\ UNCHANGED <<applied, dom, registryVars, pageVars, runVars, cpc, cpage, cbrowser>>

\* open_session handler and openSession up to the first await that suspends:
\* neither check finds the session; ensureBrowser launches unless a connected
\* browser exists
OpenStart(c, id, url) ==
    /\ NewCall(c)
    /\ getSession(id) = None
    /\ ~MapHas(sessions, id)
    /\ cargs' = [cargs EXCEPT ![c] = [id |-> id, url |-> url]]
    /\ cresult' = [cresult EXCEPT ![c] = None]
    /\ IF browser = None \/ ~isConnected(Get(browser))
       THEN /\ cpc' = [cpc EXCEPT ![c] = "launch"]
            /\ UNCHANGED cbrowser
       ELSE /\ cpc' = [cpc EXCEPT ![c] = "newPage"]
            /\ cbrowser' = [cbrowser EXCEPT ![c] = Get(browser)]
    /\ UNCHANGED <<applied, dom, registryVars, pageVars, runVars, cpage>>

\* ensureBrowser: chromium.launch resolved; browser = the new browser
LaunchResolves(c) ==
    /\ cpc[c] = "launch"
    /\ Quiescent
    /\ browsersLaunched' = browsersLaunched + 1
    /\ browserAlive' = browserAlive \cup {browsersLaunched + 1}
    /\ browser' = Some(browsersLaunched + 1)
    /\ cbrowser' = [cbrowser EXCEPT ![c] = browsersLaunched + 1]
    /\ cpc' = [cpc EXCEPT ![c] = "newPage"]
    /\ UNCHANGED <<applied, dom, sessions, pageOpen, pageBrowser, pageVars, runVars, cargs,
                   cpage, cresult, calls>>

FreePages == {p \in Pages : pageBrowser[p] = 0}

\* b.newPage() resolved
NewPageResolves(c) ==
    /\ cpc[c] = "newPage"
    /\ Quiescent
    /\ isConnected(cbrowser[c])
    /\ FreePages # {}
    /\ LET p == CHOOSE x \in FreePages : \A y \in FreePages : x <= y IN
        /\ pageBrowser' = [pageBrowser EXCEPT ![p] = cbrowser[c]]
        /\ pageOpen' = pageOpen \cup {p}
        /\ cpage' = [cpage EXCEPT ![c] = p]
    /\ cpc' = [cpc EXCEPT ![c] = "viewport"]
    /\ UNCHANGED <<applied, dom, sessions, browser, browsersLaunched, browserAlive, pageVars,
                   runVars, cargs, cbrowser, cresult, calls>>

\* page.setViewportSize resolved
ViewportResolves(c) ==
    /\ cpc[c] = "viewport"
    /\ Quiescent
    /\ cpage[c] \in pageOpen
    /\ cpc' = [cpc EXCEPT ![c] = "goto"]
    /\ UNCHANGED <<applied, dom, registryVars, pageVars, runVars, cargs, cpage, cbrowser,
                   cresult, calls>>

\* page.goto resolved: the session is registered and openSession returns; the
\* tool handler goes on to await session.page.title()
GotoResolves(c) ==
    /\ cpc[c] = "goto"
    /\ Quiescent
    /\ cpage[c] \in pageOpen
    /\ pageUrl' = [pageUrl EXCEPT ![cpage[c]] = cargs[c].url]
    /\ sessions' = MapSet(sessions, cargs[c].id, [id |-> cargs[c].id, page |-> cpage[c]])
    /\ cpc' = [cpc EXCEPT ![c] = "title"]
    /\ UNCHANGED <<applied, dom, browser, browsersLaunched, browserAlive, pageOpen, pageBrowser,
                   listeners, requests, clock, pageEvents, lastEvent, runVars, cargs, cpage,
                   cbrowser, cresult, calls>>

\* an awaited call of openSession rejected: openSession throws, nothing is
\* registered, the handler's catch returns the error
OpenRejects(c) ==
    /\ cpc[c] \in {"launch", "newPage", "viewport", "goto"}
    /\ Quiescent
    /\ cresult' = [cresult EXCEPT ![c] = Some([error |-> EngineError])]
    /\ cpc' = [cpc EXCEPT ![c] = "idle"]
    /\ UNCHANGED <<applied, dom, registryVars, pageVars, runVars, cargs, cpage, cbrowser, calls>>

\* the outcomes session.page.title() in flight can have
OpenTitleRead(c) ==
    IF cpc[c] = "title" THEN EngineCall(cpage[c], {TitleOf(pageUrl[cpage[c]])}) ELSE {}

\* session.page.title() settled: the handler returns
OpenReturns(c, o) ==
    /\ cpc[c] = "title"
    /\ Quiescent
    /\ o \in OpenTitleRead(c)
    /\ cresult' = [cresult EXCEPT ![c] =
                     IF o.kind = "return"
                     THEN Some([success |-> TRUE, session |-> cargs[c].id,
                                title |-> o.value, url |-> pageUrl[cpage[c]]])
                     ELSE Some([error |-> o.message])]
    /\ cpc' = [cpc EXCEPT ![c] = "idle"]
    /\ UNCHANGED <<applied, dom, registryVars, pageVars, runVars, cargs, cpage, cbrowser, calls>>

\* -------------------------------- session.ts, tools/close-session.ts
\* closeSession returns false: the handler reports the session as not found
CloseNotFound(c, id) ==
    /\ NewCall(c)
    /\ getSession(id) = None
    /\ cargs' = [cargs EXCEPT ![c] = [id |-> id]]
    /\ cresult' = [cresult EXCEPT ![c] =
                     Some([error |-> <<"Session '", id, "' not found">>,
                           availableSessions |-> listSessions])]
    /\ UNCHANGED <<applied, dom, registryVars, pageVars, runVars, cpc, cpage, cbrowser>>

\* closeSession up to `await session.page.close()`: the page starts closing
CloseStart(c, id) ==
    /\ NewCall(c)
    /\ getSession(id) # None
    /\ cargs' = [cargs EXCEPT ![c] = [id |-> id]]
    /\ cresult' = [cresult EXCEPT ![c] = None]
    /\ cpage' = [cpage EXCEPT ![c] = Get(getSession(id)).page]
    /\ pageOpen' = pageOpen \ {Get(getSession(id)).page}
    /\ cpc' = [cpc EXCEPT ![c] = "closePage"]
    /\ UNCHANGED <<applied, dom, sessions, browser, browsersLaunched, browserAlive, pageBrowser,
                   pageVars, runVars, cbrowser>>

Closed(c) == Some([success |-> TRUE, session |-> cargs[c].id,
                   message |-> <<"Session '", cargs[c].id, "' closed">>])

\* (mutant) the browser is closed without the test `sessions.size === 0`
ClosePageResolves_always(c) ==
    /\ cpc[c] = "closePage"
    /\ Quiescent
    /\ sessions' = MapDelete(sessions, cargs[c].id)
    /\ IF browser # None
       THEN /\ browserAlive' = browserAlive \ {Get(browser)}
            /\ pageOpen' = {p \in pageOpen : pageBrowser[p] # Get(browser)}
            /\ cpc' = [cpc EXCEPT ![c] = "closeBrowser"]
            /\ UNCHANGED cresult
       ELSE /\ cresult' = [cresult EXCEPT ![c] = Closed(c)]
            /\ cpc' = [cpc EXCEPT ![c] = "idle"]
            /\ UNCHANGED <<browserAlive, pageOpen>>
    /\ UNCHANGED <<applied, dom, browser, browsersLaunched, pageBrowser, pageVars, runVars,
                   cargs, cpage, cbrowser, calls>>

\* page.close() resolved: the entry is deleted; the last one takes the
\* browser with it
ClosePageResolves(c) ==
    /\ cpc[c] = "closePage"
    /\ Quiescent
    /\ sessions' = MapDelete(sessions, cargs[c].id)
    /\ IF Len(sessions') = 0 /\ browser # None
       THEN /\ browserAlive' = browserAlive \ {Get(browser)}
            /\ pageOpen' = {p \in pageOpen : pageBrowser[p] # Get(browser)}
            /\ cpc' = [cpc EXCEPT ![c] = "closeBrowser"]
            /\ UNCHANGED cresult
       ELSE /\ cresult' = [cresult EXCEPT ![c] = Closed(c)]
            /\ cpc' = [cpc EXCEPT ![c] = "idle"]
            /\ UNCHANGED <<browserAlive, pageOpen>>
    /\ UNCHANGED <<applied, dom, browser, browsersLaunched, pageBrowser, pageVars, runVars,
                   cargs, cpage, cbrowser, calls>>

\* browser.close() resolved: browser = null
CloseBrowserResolves(c) ==
    /\ cpc[c] = "closeBrowser"
    /\ Quiescent
    /\ browser' = None
    /\ cresult' = [cresult EXCEPT ![c] = Closed(c)]
    /\ cpc' = [cpc EXCEPT ![c] = "idle"]
    /\ UNCHANGED <<applied, dom, sessions, browsersLaunched, browserAlive, pageOpen, pageBrowser,
                   pageVars, runVars, cargs, cpage, cbrowser, calls>>

\* ------------------------------------------------------------ the system
\* inputs of run_sequence
StepInputs_action == [type |-> "action", action |-> "click", selector |-> "#submit"]
StepInputs_assert == [type |-> "assert", condition |-> [url_contains |-> <<"b">>]]
StepInputs_query == [type |-> "query", query |-> "overview"]
StepInputs == {StepInputs_action, StepInputs_assert, StepInputs_query}

StepSeqs == UNION {[1..n -> StepInputs] : n \in 0..MaxSteps}

OptionInputs_collect ==
    [console |-> [enabled |-> TRUE, level |-> "error"],
     network |-> [enabled |-> TRUE, filter |-> <<"b">>]]
OptionInputs == {<<>>, OptionInputs_collect}

RunInit ==
    /\ pc = [r \in Runs |-> "idle"]
    /\ params = [r \in Runs |-> [session |-> "", steps |-> <<>>, options |-> <<>>]]
    /\ page = [r \in Runs |-> 0]
    /\ events = [r \in Runs |-> <<>>]
    /\ lastUrl = [r \in Runs |-> <<>>]
    /\ pendingRequests = [r \in Runs |-> {}]
    /\ idx = [r \in Runs |-> 0]
    /\ startTime = [r \in Runs |-> 0]
    /\ completed = [r \in Runs |-> 0]
    /\ failedAt = [r \in Runs |-> None]
    /\ failureReason = [r \in Runs |-> None]
    /\ finalUrl = [r \in Runs |-> None]
    /\ result = [r \in Runs |-> None]
    /\ dispatches = [r \in Runs |-> <<>>]

CallerInit ==
    /\ cpc = [c \in Callers |-> "idle"]
    /\ cargs = [c \in Callers |-> [id |-> ""]]
    /\ cpage = [c \in Callers |-> 0]
    /\ cbrowser = [c \in Callers |-> 0]
    /\ cresult = [c \in Callers |-> None]
    /\ calls = 0
    /\ applied = None
    /\ dom = [p \in Pages |-> [state |-> "absent", text |-> <<>>]]

PageInit ==
    /\ listeners = [p \in Pages |-> <<>>]
    /\ requests = [q \in ReqIds |-> NoRequest]
    /\ clock = 9
    /\ pageEvents = 0

\* the process has just started: no browser, no session
InitEmpty ==
    /\ sessions = <<>>
    /\ browser = None
    /\ browsersLaunched = 0
    /\ browserAlive = {}
    /\ pageOpen = {}
    /\ pageBrowser = [p \in Pages |-> 0]
    /\ pageUrl = [p \in Pages |-> <<>>]
    /\ PageInit /\ RunInit /\ CallerInit
    /\ lastEvent = NotRecorded

\* sessions "b" and then "a" have been opened
Opened ==
    /\ sessions = <<[id |-> "b", page |-> 2], [id |-> "a", page |-> 1]>>
    /\ browser = Some(1)
    /\ browsersLaunched = 1
    /\ browserAlive = {1}
    /\ pageOpen = {sessions[k].page : k \in DOMAIN sessions}
    /\ pageBrowser = [p \in Pages |-> IF p \in pageOpen THEN 1 ELSE 0]
    /\ pageUrl = [p \in Pages |-> IF p \in pageOpen THEN <<"a">> ELSE <<>>]
    /\ PageInit /\ RunInit /\ CallerInit

InitOpened == Opened /\ lastEvent = NotRecorded

\* the same, with the pages' events recorded in lastEvent
InitRecorded == Opened /\ lastEvent = None

\* the pages whose events are followed: the page of session "a"
ObservedPages == {1}

\* the steps of a run after its invocation
RunSteps(r) ==
    \/ \E o \in Dispatched(r) : StepSucceeds(r, o)
    \/ \E o \in Dispatched(r) : StepFails(r, o)
    \/ \E o \in Dispatched(r) : StepThrows(r, o)
    \/ Finally(r)
    \/ ReturnStart(r)
    \/ \E o \in TitleRead(r) : TitleResolves(r, o)
    \/ \E o \in TitleRead(r) : TitleRejects(r, o)

RunNext(r) ==
    \/ \E sid \in {"a", UnknownId}, ss \in StepSeqs, o \in OptionInputs :
          InvokeNotFound(r, sid, ss, o)
    \/ \E sid \in {"a", UnknownId}, ss \in StepSeqs, o \in OptionInputs :
          Invoke(r, sid, ss, o)
    \/ RunSteps(r)

\* the pages have emitted fewer than n events
Budget(n) == pageEvents < n

\* the first MaxPageEvents events a page emits
PageNext ==
    \/ \E p \in ObservedPages, m \in ConsoleInputs :
          Budget(MaxPageEvents) /\ ConsoleMessage(p, m[1], m[2])
    \/ \E p \in ObservedPages, q \in ReqIds, u \in Urls, m \in Methods :
          Budget(MaxPageEvents) /\ RequestIssued(p, q, u, m)
    \/ \E q \in ReqIds, st \in Statuses :
          Budget(MaxPageEvents) /\ ResponseReceived(q, st)
    \/ \E q \in ReqIds, e \in {<<>>, <<"net::ERR_ABORTED">>} :
          Budget(MaxPageEvents) /\ RequestFailed(q, e)
    \/ \E p \in ObservedPages, f \in Frames, u \in Urls :
          Budget(MaxPageEvents) /\ FrameNavigated(p, f, u)

CloseNext(c) ==
    \/ \E id \in SessionIds : CloseNotFound(c, id)
    \/ \E id \in SessionIds : CloseStart(c, id)
    \/ ClosePageResolves(c)
    \/ CloseBrowserResolves(c)

OpenNext(c) ==
    \/ \E id \in SessionIds, u \in Urls : OpenExists(c, id, u)
    \/ \E id \in SessionIds, u \in Urls : OpenStart(c, id, u)
    \/ LaunchResolves(c)
    \/ NewPageResolves(c)
    \/ ViewportResolves(c)
    \/ GotoResolves(c)
    \/ OpenRejects(c)
    \/ \E o \in OpenTitleRead(c) : OpenReturns(c, o)

\* one run_sequence invocation on an asynchronously changing page, the clock
\* standing still
Init == InitOpened
Next ==
    \/ RunNext("r1")
    \/ PageNext
Spec == Init /\ [][Next]_vars

\* the same with a running clock: an invocation of title assertions, which
\* can succeed, fail and throw, with both collectors enabled
StepInputs_title ==
    [type |-> "assert", condition |-> [title_equals |-> TitleOf(<<"a", "b">>)]]
TimedStepSeqs == UNION {[1..n -> {StepInputs_title}] : n \in 0..MaxSteps}
TimedNext ==
    \/ \E ss \in TimedStepSeqs : Invoke("r1", "a", ss, OptionInputs_collect)
    \/ RunSteps("r1")
    \/ PageNext
    \/ Tick
SpecTimed == Init /\ [][TimedNext]_vars

\* open_session and close_session calls of two callers, from an empty registry
SessionsNext == \E c \in Callers : OpenNext(c) \/ CloseNext(c)
SpecSessions == InitEmpty /\ [][SessionsNext]_vars

\* open_session and close_session calls made one after the other
LifecycleNext == OpenNext("c1") \/ CloseNext("c1")
SpecLifecycle == InitEmpty /\ [][LifecycleNext]_vars

\* an assertion that can succeed, fail and throw whatever the page's URL is
StepInputs_count ==
    [type |-> "assert", condition |-> [element_count |-> [selector |-> "li", count |-> 1]]]

\* one invocation of that assertion under each console capture setting, on a
\* page that writes to its console while the assertion is in flight; the
\* page's events are recorded
ConsoleLevels == {"debug", "log", "info", "warn", "warning", "error"}
ConsoleTexts == {<<"a">>, <<"a", "b">>}
ConsoleCaptures ==
    {[enabled |-> FALSE, level |-> "all"]}
      \cup {[enabled |-> TRUE] @@ l @@ f :
              l \in {<<>>} \cup {[level |-> x] : x \in {"all", "warn", "error"}},
              f \in {<<>>, [filter |-> <<"b">>], [filter |-> <<"(">>]}}
ConsoleOptionInputs == {<<>>} \cup {[console |-> c] : c \in ConsoleCaptures}
ConsoleNext ==
    \/ \E o \in ConsoleOptionInputs : Invoke("r1", "a", <<StepInputs_count>>, o)
    \/ RunSteps("r1")
    \/ \E p \in ObservedPages, l \in ConsoleLevels, m \in ConsoleTexts :
          /\ Budget(MaxPageEvents)
          /\ pc["r1"] = "dispatch"
          /\ ConsoleMessage(p, l, m)
SpecConsole == InitRecorded /\ [][ConsoleNext]_vars

\* one invocation under each network capture setting, on a page that issues
\* requests before, during and after the run; a request may get its response,
\* fail, or fail after its response
NetworkCaptures ==
    {[enabled |-> FALSE], [enabled |-> TRUE],
     [enabled |-> TRUE, filter |-> <<"b">>], [enabled |-> TRUE, filter |-> <<"(">>]}
NetworkOptionInputs == {<<>>} \cup {[network |-> n] : n \in NetworkCaptures}
ErrorTexts == {<<>>, <<"net::ERR_ABORTED">>}
NetworkNext ==
    \/ \E o \in NetworkOptionInputs : Invoke("r1", "a", <<StepInputs_count>>, o)
    \/ RunSteps("r1")
    \/ \E p \in ObservedPages, q \in ReqIds, u \in Urls, m \in Methods :
          Budget(MaxPageEvents + 1) /\ RequestIssued(p, q, u, m)
    \/ \E q \in ReqIds, st \in Statuses :
          Budget(MaxPageEvents + 1) /\ ResponseReceived(q, st)
    \/ \E q \in ReqIds, e \in ErrorTexts :
          Budget(MaxPageEvents + 1) /\ RequestFailed(q, e)
SpecNetwork == InitRecorded /\ [][NetworkNext]_vars

\* performAction called once with each action type and each combination of
\* present, empty and absent parameters, or one invocation whose steps are
\* actions with and without their required parameters and an assertion
\* one run_sequence invocation whose awaits all settle: a step of the handler
\* that can be taken is taken in the end. executeStep settles by assumption,
\* the finally block and the return statement up to its await are
\* synchronous, and the final page.title() is taken to settle as well
TerminationNext ==
    \/ \E ss \in StepSeqs, o \in OptionInputs : Invoke("r1", "a", ss, o)
    \/ RunSteps("r1")
    \/ \E p \in ObservedPages, f \in Frames, u \in Urls :
          Budget(MaxPageEvents) /\ FrameNavigated(p, f, u)
SpecTermination == Init /\ [][TerminationNext]_vars /\ WF_vars(RunSteps("r1"))

\* two run_sequence invocations of one step each on the page of session "a",
\* each with the console or the network collector enabled, on a page that
\* logs and issues requests
ConcurrentOptionInputs == {[console |-> [enabled |-> TRUE]], [network |-> [enabled |-> TRUE]]}
ConcurrentNext ==
    \/ \E r \in Runs, o \in ConcurrentOptionInputs : Invoke(r, "a", <<StepInputs_count>>, o)
    \/ \E r \in Runs : RunSteps(r)
    \/ \E p \in ObservedPages, m \in ConsoleInputs :
          Budget(MaxPageEvents) /\ ConsoleMessage(p, m[1], m[2])
    \/ \E p \in ObservedPages, q \in ReqIds, u \in Urls, m \in Methods :
          Budget(MaxPageEvents) /\ RequestIssued(p, q, u, m)
    \/ \E q \in ReqIds, st \in Statuses :
          Budget(MaxPageEvents) /\ ResponseReceived(q, st)
SpecConcurrent == InitRecorded /\ [][ConcurrentNext]_vars

\* the action types the run_sequence input schema accepts for an action step
SchemaActions ==
    {"navigate", "back", "forward", "click", "fill", "select", "check", "uncheck", "press",
     "scroll", "highlight"}

ActionInputs ==
    {[type |-> t] @@ sel @@ val @@ u :
       t \in ActionTypes \cup {"highlight"},
       sel \in {<<>>, [selector |-> ""], [selector |-> "#submit"]},
       val \in {<<>>, [value |-> ""], [value |-> "x"]},
       u \in {<<>>, [url |-> "/b"]}}
ActionStepInputs ==
    {[type |-> "action", action |-> "navigate"],
     [type |-> "action", action |-> "fill", selector |-> "#q"],
     StepInputs_action, StepInputs_assert}
ActionStepSeqs == UNION {[1..n -> ActionStepInputs] : n \in 0..MaxSteps}
ActionsNext ==
    \/ \E p \in ObservedPages, a \in ActionInputs :
          pc["r1"] = "idle" /\ PerformAction(p, a)
    \/ \E ss \in ActionStepSeqs :
          applied = None /\ Invoke("r1", "a", ss, <<>>)
    \/ RunSteps("r1")
SpecActions == Init /\ [][ActionsNext]_vars

\* checkAssertion called once with each condition variant, with a condition
\* of no known variant and with an empty condition, on a page that has
\* navigated or not
ConditionInputs ==
    {[url_contains |-> <<"b">>], [url_equals |-> <<"a">>],
     [title_contains |-> TitleOf(<<"a", "b">>)], [title_equals |-> TitleOf(<<"a">>)],
     [element_exists |-> "#x"], [element_not_exists |-> "#x"], [element_visible |-> "#x"],
     [element_text_contains |-> [selector |-> "#x", text |-> <<"t">>]],
     [element_count |-> [selector |-> "li", count |-> 1]],
     [element_count_gte |-> [selector |-> "li", count |-> 1]],
     [element_count_lte |-> [selector |-> "li", count |-> 1]],
     [element_hidden |-> "#x"], <<>>}
AssertionsNext ==
    \/ \E p \in ObservedPages, c \in ConditionInputs : CheckAssertion(p, c)
    \/ \E p \in ObservedPages, f \in Frames, u \in Urls :
          /\ Budget(MaxPageEvents)
          /\ applied = None
          /\ FrameNavigated(p, f, u)
SpecAssertions == Init /\ [][AssertionsNext]_vars

\* one checkAssertion call with a timeout of a few milliseconds, on a page
\* whose element and url change while the call is in flight
WaitingNext ==
    \/ \E p \in ObservedPages, c \in ConditionInputs, t \in 1..MaxWait : AssertStart(p, c, t)
    \/ \E p \in ObservedPages, d \in Doms : DomChange(p, d)
    \/ Elapse
    \/ \E m \in {"waitForSelector", "textContent"} : WaitRejects(m)
    \/ TextRead
    \/ \E p \in ObservedPages, f \in Frames, u \in Urls :
          /\ Budget(1) /\ applied = None /\ FrameNavigated(p, f, u)
SpecWaiting == Init /\ [][WaitingNext]_vars

\* one invocation under each combination of the two collector switches, on a
\* page that navigates, writes to its console and issues requests
SwitchInputs == {<<>>, [enabled |-> FALSE], [enabled |-> TRUE]}
SwitchOptionInputs ==
    {(IF c = <<>> THEN <<>> ELSE [console |-> c])
       @@ (IF n = <<>> THEN <<>> ELSE [network |-> n]) :
     c \in SwitchInputs, n \in SwitchInputs}
CollectorsNext ==
    \/ \E o \in SwitchOptionInputs : Invoke("r1", "a", <<StepInputs_count>>, o)
    \/ RunSteps("r1")
    \/ \E p \in ObservedPages, f \in Frames, u \in Urls :
          Budget(MaxPageEvents) /\ FrameNavigated(p, f, u)
    \/ \E p \in ObservedPages, m \in ConsoleInputs :
          Budget(MaxPageEvents) /\ ConsoleMessage(p, m[1], m[2])
    \/ \E p \in ObservedPages, q \in ReqIds, u \in Urls, m \in Methods :
          Budget(MaxPageEvents) /\ RequestIssued(p, q, u, m)
SpecCollectors == InitRecorded /\ [][CollectorsNext]_vars

\* one invocation with a malformed filter on both collectors, and one with no
\* filter on either, on a page that writes to its console and issues requests
FilterOptionInputs ==
    {[console |-> [enabled |-> TRUE, level |-> "warn"] @@ f,
      network |-> [enabled |-> TRUE] @@ f] : f \in {<<>>, [filter |-> <<"(">>]}}
FilterNext ==
    \/ \E o \in FilterOptionInputs : Invoke("r1", "a", <<StepInputs_count>>, o)
    \/ RunSteps("r1")
    \/ \E p \in ObservedPages, l \in {"log", "error"}, m \in ConsoleTexts :
          Budget(MaxPageEvents + 1) /\ ConsoleMessage(p, l, m)
    \/ \E p \in ObservedPages, q \in ReqIds, u \in Urls, m \in Methods :
          Budget(MaxPageEvents + 1) /\ RequestIssued(p, q, u, m)
    \/ \E q \in ReqIds, st \in Statuses :
          Budget(MaxPageEvents + 1) /\ ResponseReceived(q, st)
SpecFilter == InitRecorded /\ [][FilterNext]_vars

\* ------------------------------------------------------------ properties
\* the Step events of a log, in log order
StepEventsOf(log) == SelectSeq(log, LAMBDA e : e.type = "step")

\* the run returned a SequenceResult (not the session-not-found payload)
Returned(r) == pc[r] = "done" /\ "success" \in DOMAIN Get(result[r])

\* C1: fail-fast. When the dispatch of step k is the first one that returns an
\* unsuccessful result or throws, no later executeStep call is ever made, the
\* log holds no Step event with an index above k, and the result returned has
\* completed = k, failed_at = k and success = false.
FailFast ==
    \A r \in Runs : \A n \in DOMAIN dispatches[r] :
        LET d == dispatches[r][n] IN
        (/\ d.outcome \in {"failed", "threw"}
         /\ \A m \in 1..(n - 1) : dispatches[r][m].outcome = "ok")
        => /\ n = Len(dispatches[r])
           /\ \A j \in DOMAIN events[r] :
                 events[r][j].type = "step" => events[r][j].index <= d.index
           /\ Returned(r) =>
                 /\ Get(result[r]).completed = d.index
                 /\ "failed_at" \in DOMAIN Get(result[r])
                 /\ Get(result[r]).failed_at = d.index
                 /\ Get(result[r]).success = FALSE

\* a run of two steps returned after its first step failed
FailFastWitness ==
    /\ Returned("r1")
    /\ Get(result["r1"]).total = 2
    /\ dispatches["r1"] # <<>>
    /\ dispatches["r1"][1].outcome = "failed"

\* C2: all-success. When every executeStep call of a run of N steps succeeded,
\* the result returned has success = true, completed = N, total = N, no
\* failed_at, and its log holds exactly N Step events with indices 0..N-1 in
\* that order.
AllSuccess ==
    \A r \in Runs :
        (Returned(r) /\ \A n \in DOMAIN dispatches[r] : dispatches[r][n].outcome = "ok")
        => LET res == Get(result[r])
               N == Len(params[r].steps)
               se == StepEventsOf(res.events)
           IN /\ res.success = TRUE
              /\ res.completed = N
              /\ res.total = N
              /\ "failed_at" \notin DOMAIN res
              /\ Len(se) = N
              /\ \A j \in 1..N : se[j].index = j - 1 /\ se[j].result.success

\* a run of two steps returned with both steps successful
AllSuccessWitness ==
    /\ Returned("r1")
    /\ Len(params["r1"].steps) = 2
    /\ Len(dispatches["r1"]) = 2
    /\ \A n \in 1..2 : dispatches["r1"][n].outcome = "ok"

\* C3: in every result returned, failed_at is set iff success is false,
\* completed is the number of Step events with result.success, and those are
\* the Step events of steps 0..completed-1.
ResultInvariant ==
    \A r \in Runs :
        Returned(r)
        => LET res == Get(result[r])
               se == StepEventsOf(res.events)
               ok == SelectSeq(se, LAMBDA e : e.result.success)
           IN /\ ("failed_at" \in DOMAIN res) <=> (res.success = FALSE)
              /\ res.completed = Len(ok)
              /\ \A j \in 1..Len(ok) :
                    /\ ok[j].index = j - 1
                    /\ ok[j].step = params[r].steps[j]
                    /\ se[j] = ok[j]

\* a run returned after its second step failed: one step completed
ResultInvariantWitness ==
    /\ Returned("r1")
    /\ Get(result["r1"]).success = FALSE
    /\ Get(result["r1"]).completed = 1

\* C4: cleanup. Once a run_sequence invocation has finished, by returning or by
\* raising, none of the listeners it attached is attached to any page, and no
\* page event changes its log any more.
Finished(r) == pc[r] \in {"done", "raised"}
Cleanup ==
    /\ [](\A r \in Runs : Finished(r) =>
            \A p \in Pages : \A k \in DOMAIN listeners[p] : listeners[p][k][1] # r)
    /\ [][\A r \in Runs : Finished(r) => events'[r] = events[r]]_vars

\* a run with both collectors enabled has finished after a step threw, on a
\* page that has emitted events
CleanupWitness ==
    /\ Finished("r1")
    /\ Enabled(params["r1"].options, "console")
    /\ Enabled(params["r1"].options, "network")
    /\ dispatches["r1"] # <<>>
    /\ dispatches["r1"][Len(dispatches["r1"])].outcome = "threw"
    /\ pageEvents > 0

\* the events the collectors record
CollectorTypes == {"console", "network", "navigation"}

\* C5: chronology tie-break. The log of a run changes only while a dispatch is
\* in flight, and only by one event appended at its end. While the dispatch of
\* step i is in flight the Step events in the log are those of steps 0..i-1,
\* so a collector event recorded then comes after the Step event of step i-1
\* and before the Step event of step i; the Step event of step i is appended
\* in the step in which that dispatch returns or throws, never earlier.
Chronology ==
    [][\A r \in Runs :
          events'[r] # events[r] =>
             LET new == events'[r][Len(events'[r])]
                 before == StepEventsOf(events[r])
                 d == dispatches[r][Len(dispatches[r])]
             IN /\ pc[r] = "dispatch"
                /\ events'[r] = Append(events[r], new)
                /\ d.outcome = "pending"
                /\ Len(before) = d.index
                /\ \A j \in 1..Len(before) : before[j].index = j - 1
                /\ IF new.type = "step"
                   THEN /\ new.index = d.index
                        /\ dispatches'[r][Len(dispatches[r])].outcome # "pending"
                   ELSE /\ new.type \in CollectorTypes
                        /\ dispatches'[r] = dispatches[r]
                        /\ pc'[r] = "dispatch"]_vars

\* the log of a returned run holds the Step event of step 0, then collector
\* events (a network event, or a console and a navigation event), then the
\* Step event of step 1
ChronologyWitness ==
    /\ Returned("r1")
    /\ LET log == Get(result["r1"]).events IN
        \E a, b \in DOMAIN log :
            /\ a + 1 < b
            /\ log[a].type = "step" /\ log[a].index = 0
            /\ log[b].type = "step" /\ log[b].index = 1
            /\ {log[k].type : k \in (a + 1)..(b - 1)} \in
                  {{"console", "navigation"}, {"network"}}

\* lexicographic order of two strings of digits
RECURSIVE LexLeq(_, _)
LexLeq(s, t) ==
    IF s = <<>> THEN TRUE
    ELSE IF t = <<>> THEN FALSE
    ELSE IF Head(s) # Head(t) THEN Head(s) < Head(t)
    ELSE LexLeq(Tail(s), Tail(t))

Ordered(log) ==
    \A a, b \in DOMAIN log :
        a < b => /\ LexLeq(log[a].timestamp, log[b].timestamp)
                 /\ (log[a].type = "step" /\ log[b].type = "step")
                       => log[a].index < log[b].index

\* C6: event log ordering. At every moment, and in every log returned, the
\* timestamps are non-decreasing along the log and the Step events come by
\* increasing index; once a run has started, a step of the system leaves the
\* events already in its log where they are.
EventLogOrdering ==
    /\ [](\A r \in Runs :
            /\ Ordered(events[r])
            /\ Returned(r) => /\ Ordered(Get(result[r]).events)
                              /\ Get(result[r]).events = events[r])
    /\ [][\A r \in Runs :
            pc[r] # "idle" =>
               /\ Len(events'[r]) >= Len(events[r])
               /\ SubSeq(events'[r], 1, Len(events[r])) = events[r]]_vars

\* a returned log of two Step events and a collector event, recorded at two
\* different times
EventLogOrderingWitness ==
    /\ Returned("r1")
    /\ LET log == Get(result["r1"]).events IN
        /\ Len(StepEventsOf(log)) = 2
        /\ \E k \in DOMAIN log : log[k].type \in CollectorTypes
        /\ log[1].timestamp # log[Len(log)].timestamp

\* the ids in the registry, oldest first
RegisteredIds(m) == [k \in DOMAIN m |-> m[k].id]

\* run r was invoked with a session id that is not in the registry
NotFound(r) == pc[r] = "done" /\ ~Returned(r)

\* C7: session-not-found. An invocation naming a session id that is not in
\* the registry returns, in that same step, the payload {error: "Session
\* '<id>' not found", availableSessions: the registered ids in insertion
\* order}; it calls executeStep for no step, records no event, attaches no
\* listener to any page and leaves the registry and the pages as they were.
SessionNotFound ==
    /\ [][\A r \in Runs :
            (/\ pc[r] = "idle" /\ pc'[r] # "idle"
             /\ \A k \in DOMAIN sessions : sessions[k].id # params'[r].session)
            => /\ pc'[r] = "done"
               /\ result'[r] =
                     Some([error |-> <<"Session '", params'[r].session, "' not found">>,
                           availableSessions |-> RegisteredIds(sessions)])
               /\ registryVars' = registryVars
               /\ listeners' = listeners]_vars
    /\ [](\A r \in Runs :
            NotFound(r) => /\ dispatches[r] = <<>>
                           /\ events[r] = <<>>
                           /\ \A p \in Pages : \A k \in DOMAIN listeners[p] :
                                 listeners[p][k][1] # r)

\* an invocation with two steps and both collectors enabled named an unknown
\* session and got the payload, listing the two registered sessions
SessionNotFoundWitness ==
    /\ NotFound("r1")
    /\ params["r1"].session = UnknownId
    /\ Len(params["r1"].steps) = 2
    /\ Enabled(params["r1"].options, "network")
    /\ Len(Get(result["r1"]).availableSessions) = 2

\* C8: an executeStep call for step i that throws is caught at the step
\* boundary. The step in which it throws leads to the finally block, not out
\* of the handler; from then on the log holds exactly one Step event of index
\* i, with success = false and error = the message thrown; no further
\* executeStep call is made, and the result returned has failed_at = i.
ThrownIsCaught ==
    /\ [][\A r \in Runs :
            (/\ pc[r] = "dispatch"
             /\ dispatches'[r][Len(dispatches'[r])].outcome = "threw")
            => pc'[r] = "finally"]_vars
    /\ [](\A r \in Runs : \A n \in DOMAIN dispatches[r] :
            LET d == dispatches[r][n] IN
            d.outcome = "threw" =>
               LET se == SelectSeq(events[r],
                                   LAMBDA e : e.type = "step" /\ e.index = d.index)
               IN /\ Len(se) = 1
                  /\ se[1].result.success = FALSE
                  /\ "error" \in DOMAIN se[1].result
                  /\ se[1].result.error = d.message
                  /\ se[1].step = params[r].steps[d.index + 1]
                  /\ n = Len(dispatches[r])
                  /\ failedAt[r] = Some(d.index)
                  /\ Returned(r) => /\ Get(result[r]).success = FALSE
                                    /\ Get(result[r]).failed_at = d.index
                                    /\ Get(result[r]).failure_reason = d.message)

\* a run of two steps returned after its second step threw
ThrownIsCaughtWitness ==
    /\ Returned("r1")
    /\ Len(dispatches["r1"]) = 2
    /\ dispatches["r1"][2].outcome = "threw"
    /\ Get(result["r1"]).failed_at = 1

\* a SequenceResult with all the fields every result has
WellFormed(res) ==
    {"success", "completed", "total", "events", "final_state"} \subseteq DOMAIN res

\* C9 (as stated): an invocation on a session that exists never raises, and
\* what it returns is a well-formed SequenceResult.  The handler does raise:
\* `await page.title()` in the return statement is outside every try block.
NeverRaises ==
    \A r \in Runs :
        /\ pc[r] # "raised"
        /\ (pc[r] = "done" /\ MapHas(sessions, params[r].session))
              => WellFormed(Get(result[r]))

\* C10 (as stated): an id that is registered keeps its page handle for as
\* long as it stays registered.  Two open_session calls for one id that both
\* pass the check before either registers make the later sessions.set replace
\* the earlier page.
NeverOverwritten ==
    [][\A k \in DOMAIN sessions : \A j \in DOMAIN sessions' :
          sessions'[j].id = sessions[k].id => sessions'[j].page = sessions[k].page]_vars

\* the shared handle refers to a browser that has not been closed
BrowserUp == browser # None /\ Get(browser) \in browserAlive

ConsoleEventsOf(log) == SelectSeq(log, LAMBDA e : e.type = "console")

\* the step is the emission of an event on channel ch by a page
Emits(ch) ==
    /\ pageEvents' = pageEvents + 1
    /\ IsSome(lastEvent')
    /\ Get(lastEvent').channel = ch

\* console capture is configured and enabled in the options of run r
ConsoleOn(r) ==
    /\ "console" \in DOMAIN params[r].options
    /\ params[r].options.console.enabled

\* C12: collector independence for console capture. A run whose options have
\* no console capture, or one with enabled = false, never has a Console event
\* in its log, whatever the page writes to its console during the run; a run
\* with level 'error' never has a Console event of level log, info or debug.
\* The emission of such a message leaves the log as it was.
ConsoleIndependence ==
    /\ [](\A r \in Runs :
            LET quiet == {"log", "info", "debug"}
                logs == {events[r]} \cup (IF Returned(r) THEN {Get(result[r]).events} ELSE {})
            IN pc[r] # "idle" =>
                 \A log \in logs :
                    /\ ~ConsoleOn(r) => ConsoleEventsOf(log) = <<>>
                    /\ (/\ ConsoleOn(r)
                        /\ "level" \in DOMAIN params[r].options.console
                        /\ params[r].options.console.level = "error")
                       => \A k \in DOMAIN log :
                             log[k].type = "console" => log[k].level \notin quiet)
    /\ [][\A r \in Runs :
            (/\ Emits("console")
             /\ pc[r] = "dispatch"
             /\ \/ ~ConsoleOn(r)
                \/ /\ "level" \in DOMAIN params[r].options.console
                   /\ params[r].options.console.level = "error"
                   /\ Get(lastEvent').level \in {"log", "info", "debug"})
            => events'[r] = events[r]]_vars

\* a run with console capture present but not enabled returned a log of its
\* one Step event, after the page wrote two messages, the last one at level
\* error, while its step was in flight
ConsoleIndependenceWitness ==
    /\ Returned("r1")
    /\ "console" \in DOMAIN params["r1"].options
    /\ ~ConsoleOn("r1")
    /\ Len(Get(result["r1"]).events) = 1
    /\ pageEvents = 2
    /\ IsSome(lastEvent)
    /\ Get(lastEvent).channel = "console"
    /\ Get(lastEvent).level = "error"

\* the severity order of the console levels; the engine names warn "warning"
LevelRank == [debug |-> 0, log |-> 1, info |-> 2, warn |-> 3, warning |-> 3, error |-> 4]

\* the rank a message needs under capture setting c: 'all', also the default,
\* admits every level
MinimumRank(c) ==
    IF "level" \notin DOMAIN c \/ c.level = "all" THEN 0 ELSE LevelRank[c.level]

\* C13: console minimum-severity filter. When the page writes a message of
\* level L while a run with console capture enabled (and a filter that is
\* absent or a valid regex) is in flight, the run's log gains one Console
\* event with that level and text if L ranks at least as high as the
\* configured minimum and the text matches the filter, and stays as it was
\* otherwise.
ConsoleSeverityFilter ==
    [][\A r \in Runs :
          (/\ Emits("console")
           /\ pc[r] = "dispatch"
           /\ ConsoleOn(r)
           /\ "filter" \in DOMAIN params[r].options.console
                 => RegExpCompiles(params[r].options.console.filter))
          => LET c == params[r].options.console
                 e == Get(lastEvent')
                 admitted == /\ LevelRank[e.level] >= MinimumRank(c)
                             /\ "filter" \in DOMAIN c => RegExpTest(c.filter, e.message)
             IN IF admitted
                THEN /\ Len(events'[r]) = Len(events[r]) + 1
                     /\ SubSeq(events'[r], 1, Len(events[r])) = events[r]
                     /\ LET new == events'[r][Len(events'[r])] IN
                          /\ new.type = "console"
                          /\ new.level = e.level
                          /\ new.message = e.message
                ELSE events'[r] = events[r]]_vars

\* under level 'warn' and filter "b" the log of a returned run holds one
\* Console event, of a warning that matches; an error that does not match was
\* written after it and is not in the log
ConsoleSeverityFilterWitness ==
    /\ Returned("r1")
    /\ ConsoleOn("r1")
    /\ params["r1"].options.console = [enabled |-> TRUE, level |-> "warn", filter |-> <<"b">>]
    /\ LET ce == ConsoleEventsOf(Get(result["r1"]).events) IN
         /\ Len(ce) = 1
         /\ ce[1].level = "warning"
    /\ pageEvents = 2
    /\ IsSome(lastEvent)
    /\ Get(lastEvent).channel = "console"
    /\ Get(lastEvent).level = "error"
    /\ Get(lastEvent).message = <<"a">>

\* the filter of capture setting c is absent, or is not a regular expression
Unfiltered(c) == "filter" \notin DOMAIN c \/ ~RegExpCompiles(c.filter)

\* C14: malformed filter tolerance. Under a filter that is not a valid regular
\* expression the collectors decide as they do with no filter at all: a
\* console message is recorded iff its level passes the minimum severity, a
\* request is retained as pending whatever its URL; the callback leaves the
\* sequence where it was and records no failure.
FilterTolerance ==
    [][\A r \in Runs :
          (/\ pc[r] = "dispatch"
           /\ ConsoleOn(r)
           /\ Enabled(params[r].options, "network")
           /\ Unfiltered(params[r].options.console)
           /\ Unfiltered(params[r].options.network))
          => /\ Emits("console")
                => LET e == Get(lastEvent') IN
                   /\ events'[r] =
                        IF LevelRank[e.level] >= MinimumRank(params[r].options.console)
                        THEN Append(events[r],
                                    [type |-> "console", level |-> e.level,
                                     message |-> e.message,
                                     timestamp |-> toISOString(clock)])
                        ELSE events[r]
                   /\ pc'[r] = pc[r] /\ failureReason'[r] = failureReason[r]
             /\ Emits("request")
                => LET q == Get(lastEvent').request IN
                   /\ \E e \in pendingRequests'[r] :
                        /\ pendingRequests'[r] = pendingRequests[r] \cup {e}
                        /\ e \notin pendingRequests[r]
                        /\ e.url = requests'[q].url
                   /\ pc'[r] = pc[r] /\ failureReason'[r] = failureReason[r]]_vars

\* a run whose console and network filters are both "(" returned a log with
\* a Console event and a Network event for a URL
FilterToleranceWitness ==
    /\ Returned("r1")
    /\ params["r1"].options =
         [console |-> [enabled |-> TRUE, level |-> "warn", filter |-> <<"(">>],
          network |-> [enabled |-> TRUE, filter |-> <<"(">>]]
    /\ LET log == Get(result["r1"]).events IN
         /\ \E k \in DOMAIN log : log[k].type = "console" /\ log[k].level = "error"
         /\ \E k \in DOMAIN log : log[k].type = "network" /\ log[k].url = <<"a">>

\* the Network events of a log, in log order
NetworkEventsOf(log) == SelectSeq(log, LAMBDA e : e.type = "network")

\* request q was retained by the request handler of run r
Retained(r, q) ==
    /\ requests[q].state # "none"
    /\ IsSome(requests[q].seqRequestId)
    /\ Get(requests[q].seqRequestId)[3] = <<r, q>>

\* the handler of run r for channel ch is attached to page p
Attached(r, p, ch) == <<r, ch>> \in Range(listeners[p])

\* the step is the emission of 'response' or 'requestfailed'
EmitsSettled == Emits("response") \/ Emits("requestfailed")

\* what a settled request adds to a Network event: its status or its error
Outcome(e) ==
    IF e.channel = "response" THEN [status |-> e.status]
    ELSE [error |-> IF e.errorText # <<>> THEN e.errorText ELSE <<"Request failed">>]

\* C15: one Network event per observed request. When a request that the
\* run's collector retained gets its response or fails for the first time
\* while the run's listeners are attached, the log gains exactly one Network
\* event with the method and URL recorded at request time and the status or
\* the error text; a later response or failure of the same request adds
\* nothing, so the log never holds more Network events than there are settled
\* requests.
NetworkOnce ==
    /\ [](\A r \in Runs :
            Len(NetworkEventsOf(events[r]))
              <= Cardinality({q \in ReqIds : /\ Retained(r, q)
                                              /\ requests[q].state \in {"responded", "failed"}}))
    /\ [][\A r \in Runs :
            EmitsSettled
            => LET e == Get(lastEvent')
                   q == e.request
               IN IF /\ Retained(r, q)
                     /\ Attached(r, requests[q].page, e.channel)
                     /\ requests[q].state = "open"
                  THEN /\ Len(events'[r]) = Len(events[r]) + 1
                       /\ SubSeq(events'[r], 1, Len(events[r])) = events[r]
                       /\ LET new == events'[r][Len(events'[r])] IN
                            /\ new.type = "network"
                            /\ new.method = requests[q].method
                            /\ new.url = requests[q].url
                            /\ \A f \in {"status", "error"} :
                                 /\ f \in DOMAIN new <=> f \in DOMAIN Outcome(e)
                                 /\ f \in DOMAIN new => new[f] = Outcome(e)[f]
                  ELSE events'[r] = events[r]]_vars

\* a request got its response and then failed while the run was in flight;
\* the returned log holds one Network event, with the status
NetworkOnceWitness ==
    /\ Returned("r1")
    /\ Retained("r1", 1)
    /\ requests[1].state = "failed"
    /\ requests[2].state = "none"
    /\ pageEvents = 3
    /\ LET ne == NetworkEventsOf(Get(result["r1"]).events) IN
         /\ Len(ne) = 1
         /\ "status" \in DOMAIN ne[1]
         /\ ne[1].url = requests[1].url

\* the listeners of run r have been detached: it is past its finally block
Detached(r) == pc[r] \in {"return", "title", "done", "raised"}

\* C16: no event for an unresolved request. Once the listeners are detached
\* the log of the run is final: a response or a failure that arrives later
\* changes neither the log nor the returned result, and a request still
\* pending then has no Network event. Every request the collector retained
\* is either still pending or accounts for one Network event of the log.
UnresolvedRequests ==
    /\ [](\A r \in Runs :
            Len(NetworkEventsOf(events[r])) + Cardinality(pendingRequests[r])
              = Cardinality({q \in ReqIds : Retained(r, q)}))
    /\ [](\A r \in Runs :
            Returned(r) => Get(result[r]).events = events[r])
    /\ [][\A r \in Runs :
            Detached(r) => /\ events'[r] = events[r]
                           /\ pendingRequests'[r] = pendingRequests[r]
                           /\ (pc[r] = "done" => result'[r] = result[r])]_vars

\* a request retained during the run got its response after the run had
\* returned: it is still pending and the returned log has no Network event
UnresolvedRequestsWitness ==
    /\ Returned("r1")
    /\ Retained("r1", 1)
    /\ requests[1].state = "responded"
    /\ Cardinality(pendingRequests["r1"]) = 1
    /\ NetworkEventsOf(Get(result["r1"]).events) = <<>>
    /\ IsSome(lastEvent)
    /\ Get(lastEvent).channel = "response"

\* the network capture setting of run r has a filter that is a regular expression
NetworkFiltered(r) ==
    /\ Enabled(params[r].options, "network")
    /\ "filter" \in DOMAIN params[r].options.network
    /\ RegExpCompiles(params[r].options.network.filter)

\* C17: network URL filter. With network capture enabled and a valid filter,
\* a request issued during the run is retained iff its URL matches the
\* filter, so every Network event of the log has a matching URL, and a
\* matching request that gets its response or fails during the run produces
\* its Network event. With network capture absent or not enabled the log
\* never has a Network event.
NetworkUrlFilter ==
    /\ [](\A r \in Runs :
            pc[r] # "idle" =>
              /\ ~Enabled(params[r].options, "network")
                   => NetworkEventsOf(events[r]) = <<>> /\ pendingRequests[r] = {}
              /\ NetworkFiltered(r)
                   => \A k \in DOMAIN events[r] :
                         events[r][k].type = "network"
                         => RegExpTest(params[r].options.network.filter, events[r][k].url))
    /\ [][\A r \in Runs :
            (pc[r] = "dispatch" /\ NetworkFiltered(r))
            => /\ Emits("request")
                  => LET q == Get(lastEvent').request IN
                     IF RegExpTest(params[r].options.network.filter, requests'[q].url)
                     THEN /\ IsSome(requests'[q].seqRequestId)
                          /\ Get(requests'[q].seqRequestId)[3] = <<r, q>>
                          /\ Cardinality(pendingRequests'[r]) = Cardinality(pendingRequests[r]) + 1
                     ELSE /\ requests'[q].seqRequestId = None
                          /\ pendingRequests'[r] = pendingRequests[r]
               /\ EmitsSettled
                  => LET q == Get(lastEvent').request IN
                     (/\ Retained(r, q)
                      /\ requests[q].state = "open"
                      /\ RegExpTest(params[r].options.network.filter, requests[q].url))
                     => /\ Len(events'[r]) = Len(events[r]) + 1
                        /\ events'[r][Len(events'[r])].type = "network"
                        /\ events'[r][Len(events'[r])].url = requests[q].url]_vars

\* under filter "b" the run recorded the response of a request for "ab" and
\* has just let a request for "a" pass unrecorded
NetworkUrlFilterWitness ==
    /\ pc["r1"] = "dispatch"
    /\ NetworkFiltered("r1")
    /\ params["r1"].options.network.filter = <<"b">>
    /\ Retained("r1", 1)
    /\ requests[1].state = "responded"
    /\ Len(NetworkEventsOf(events["r1"])) = 1
    /\ IsSome(lastEvent)
    /\ Get(lastEvent).channel = "request"
    /\ Get(lastEvent).request = 2
    /\ requests[2].url = <<"a">>
    /\ ~Retained("r1", 2)
    /\ pendingRequests["r1"] = {}

\* the Navigation events of a log, in log order
NavigationEventsOf(log) == SelectSeq(log, LAMBDA e : e.type = "navigation")

\* C18: navigation capture. When the page reports a frame navigation while
\* the run listens, a Navigation event (from the last-seen URL to the page's
\* URL) is appended and the last-seen URL becomes the page's URL iff the
\* report is about the top-level frame and the page's URL differs from the
\* last-seen one; a sub-frame report or a report with the URL unchanged
\* leaves the log and the last-seen URL as they were.
NavigationCapture ==
    [][\A r \in Runs :
          (Emits("framenavigated") /\ pc[r] = "dispatch")
          => LET e == Get(lastEvent')
                 newUrl == pageUrl'[e.page]
             IN IF e.page = page[r] /\ e.frame = "main" /\ e.url # lastUrl[r]
                THEN /\ events'[r] =
                          Append(events[r],
                                 [type |-> "navigation", from |-> lastUrl[r], to |-> e.url,
                                  timestamp |-> toISOString(clock)])
                     /\ newUrl = e.url
                     /\ lastUrl'[r] = e.url
                ELSE /\ events'[r] = events[r]
                     /\ lastUrl'[r] = lastUrl[r]]_vars

\* the page went from "a" to "ab", which the run recorded, and then reported
\* a sub-frame navigation to "a", which it did not
NavigationCaptureWitness ==
    /\ pc["r1"] = "dispatch"
    /\ pageEvents = 2
    /\ IsSome(lastEvent)
    /\ Get(lastEvent).channel = "framenavigated"
    /\ Get(lastEvent).frame = "sub"
    /\ Get(lastEvent).url = <<"a">>
    /\ lastUrl["r1"] = <<"a", "b">>
    /\ Len(NavigationEventsOf(events["r1"])) = 1

\* the number of listeners of run r on channel ch of page p
ListenerCount(r, p, ch) ==
    Len(SelectSeq(listeners[p], LAMBDA h : h = <<r, ch>>))

FailureOutcome(r) ==
    LET res == Get(result[r])
        se == StepEventsOf(res.events)
    IN [success |-> res.success,
        completed |-> res.completed,
        failed_at |-> IF "failed_at" \in DOMAIN res THEN Some(res.failed_at) ELSE None,
        dispatched |-> Len(dispatches[r]),
        failing |-> {se[k].index : k \in {j \in DOMAIN se : ~se[j].result.success}},
        last |-> IF se = <<>> THEN None ELSE Some(se[Len(se)].index),
        reported |-> "failure_reason" \in DOMAIN res
                       /\ se # <<>>
                       /\ "error" \in DOMAIN se[Len(se)].result
                       /\ res.failure_reason = se[Len(se)].result.error]

\* C20: failure-path equivalence. A run whose step i is an assertion that
\* fails and a run whose step i is an action that throws return the same
\* sequence-level outcome: success false, completed = i, failed_at = i, one
\* failing Step event (the last one, with index i) whose error is the failure
\* reason, and no dispatch after step i. They differ in the error string and
\* in the data of the failing Step event: the assertion's carries the
\* assertion result, the thrown action's carries none.
FailureEquivalence ==
    \A r \in Runs :
        (Returned(r) /\ dispatches[r] # <<>>) =>
          LET d == dispatches[r][Len(dispatches[r])]
              step == steps(r)[d.index + 1]
              se == StepEventsOf(Get(result[r]).events)
              asserted == d.outcome = "failed" /\ step.type = "assert"
              thrown == d.outcome = "threw" /\ step.type = "action"
          IN (asserted \/ thrown) =>
               /\ FailureOutcome(r) =
                    [success |-> FALSE, completed |-> d.index, failed_at |-> Some(d.index),
                     dispatched |-> d.index + 1, failing |-> {d.index},
                     last |-> Some(d.index), reported |-> TRUE]
               /\ asserted => /\ "data" \in DOMAIN se[Len(se)].result
                               /\ se[Len(se)].result.data.success = FALSE
                               /\ "condition" \in DOMAIN se[Len(se)].result.data
               /\ thrown => /\ "data" \notin DOMAIN se[Len(se)].result
                             /\ se[Len(se)].result.error = d.message

\* a run of a query and a click returned after the click threw: failed_at = 1
\* and the failing Step event has no data
FailureEquivalenceWitness ==
    /\ Returned("r1")
    /\ Len(dispatches["r1"]) = 2
    /\ dispatches["r1"][2].outcome = "threw"
    /\ steps("r1")[2].type = "action"
    /\ Get(result["r1"]).failed_at = 1
    /\ Get(result["r1"]).completed = 1
    /\ LET se == StepEventsOf(Get(result["r1"]).events) IN
         /\ Len(se) = 2
         /\ "data" \notin DOMAIN se[2].result

\* the parameters executeAction hands to performAction for an action step
ParamsOf(step) ==
    [type |-> step.action] @@ [f \in DOMAIN step \cap {"selector", "value", "url"} |-> step[f]]

\* a required parameter of action a is missing
Missing(a) ==
    LET no(f) == f \notin DOMAIN a \/ a[f] = "" IN
    CASE a.type = "navigate" -> no("url")
      [] a.type \in {"click", "check", "uncheck"} -> no("selector")
      [] a.type \in {"fill", "select"} -> no("selector") \/ "value" \notin DOMAIN a
      [] a.type = "press" -> no("selector") /\ no("value")
      [] OTHER -> FALSE

\* the messages of the parameter-validation errors
ValidationErrors ==
    {<<"navigate requires url parameter">>, <<"click requires selector parameter">>,
     <<"fill requires selector parameter">>, <<"fill requires value parameter">>,
     <<"select requires selector parameter">>, <<"select requires value parameter">>,
     <<"check requires selector parameter">>, <<"uncheck requires selector parameter">>,
     <<"press requires selector or value (key) parameter">>}

\* C21: action validation precedes page interaction. performAction called
\* with a required parameter missing raises a validation error and has made
\* no call on the page; a step of a run that is such an action raises in its
\* dispatch, which is the last dispatch of the run, and is recorded as a
\* failing Step event carrying the validation error.
ActionValidation ==
    /\ IsSome(applied) =>
          LET t == Get(applied) IN
          Missing(t.input) => /\ t.calls = <<>>
                              /\ t.outcome.kind = "throw"
                              /\ t.outcome.message \in ValidationErrors
    /\ \A r \in Runs : \A n \in DOMAIN dispatches[r] :
          LET d == dispatches[r][n]
              step == steps(r)[d.index + 1]
          IN (step.type = "action" /\ Missing(ParamsOf(step)))
             => \/ d.outcome = "pending"
                \/ /\ d.outcome = "threw"
                   /\ d.message \in ValidationErrors
                   /\ n = Len(dispatches[r])
                   /\ failedAt[r] = Some(d.index)
                   /\ LET se == StepEventsOf(events[r]) IN
                        /\ se # <<>>
                        /\ se[Len(se)].index = d.index
                        /\ se[Len(se)].result.success = FALSE
                        /\ se[Len(se)].result.error = d.message

\* fill was called with a selector and no value: it raised "fill requires
\* value parameter" and made no call on the page
ActionValidationWitness ==
    /\ IsSome(applied)
    /\ Get(applied).input = [type |-> "fill", selector |-> "#submit"]
    /\ Get(applied).calls = <<>>
    /\ Get(applied).outcome = Throw(<<"fill requires value parameter">>)

\* the page calls that wait for the load state
LoadWaits == {"goto", "goBack", "goForward", "waitForLoadState"}

\* the direct call made rejected in one of the page calls of ms with error e
Rejected(ms, e) ==
    /\ IsSome(applied)
    /\ \E k \in DOMAIN Get(applied).calls :
          Get(applied).calls[k][1] \in ms /\ Get(applied).calls[k][2] = Some(e)

\* C22 as stated: for click, press, navigate, back and forward a wait for the
\* load state that times out leaves the action successful: performAction
\* returns a result with success = true and does not raise.
LoadWaitBestEffort ==
    (/\ Rejected(LoadWaits, LoadTimeout)
     /\ Get(applied).input.type \in {"click", "press", "navigate", "back", "forward"})
    => /\ Get(applied).outcome.kind = "return"
       /\ Get(applied).outcome.value.success

\* C22 amended: for click and press the wait for the load state is
\* best-effort: when it times out or fails, performAction still returns a
\* result with success = true. For navigate, back and forward the wait is
\* part of the navigation call, and performAction raises the error of that
\* call when it times out or fails.
LoadWaitCaught ==
    \A e \in {EngineError, LoadTimeout} :
        /\ (/\ Rejected({"waitForLoadState"}, e)
            /\ Get(applied).input.type \in {"click", "press"})
           => /\ Get(applied).outcome.kind = "return"
              /\ Get(applied).outcome.value.success
              /\ "error" \notin DOMAIN Get(applied).outcome.value
        /\ (/\ Rejected({"goto", "goBack", "goForward"}, e)
            /\ Get(applied).input.type \in {"navigate", "back", "forward"})
           => /\ Get(applied).outcome = Throw(e)
              /\ Len(Get(applied).calls) = 1

\* a click went through, the wait for the load state timed out, and the
\* action returned its result with the page's URL
LoadWaitCaughtWitness ==
    /\ IsSome(applied)
    /\ Get(applied).input = [type |-> "click", selector |-> "#submit"]
    /\ Get(applied).calls =
         <<<<"click", None>>, <<"waitForLoadState", Some(LoadTimeout)>>, <<"url", None>>>>
    /\ Get(applied).outcome.kind = "return"
    /\ Get(applied).outcome.value.success

\* C23 as stated: performAction called with a known action type and its
\* required parameters never raises: it returns a result object, also when
\* a call on the page fails.
ReturnsWhenValid ==
    (/\ IsSome(applied)
     /\ Get(applied).input.type \in ActionTypes
     /\ ~Missing(Get(applied).input))
    => Get(applied).outcome.kind = "return"

\* C23 amended: performAction raises exactly when a required parameter is
\* missing, when the action type is not one it knows, or when an awaited
\* page call other than the best-effort wait for the load state rejects
\* (selector not found, timeout, engine error), and then with that call's
\* error; in every other case it returns a result object with success =
\* true, the action type and no error.
RaisesOrReturns ==
    IsSome(applied) =>
      LET t == Get(applied)
          failed == {k \in DOMAIN t.calls :
                       IsSome(t.calls[k][2]) /\ t.calls[k][1] # "waitForLoadState"}
      IN /\ t.outcome.kind = "throw"
              <=> \/ Missing(t.input)
                  \/ t.input.type \notin ActionTypes
                  \/ failed # {}
         /\ failed # {} => /\ failed = {Len(t.calls)}
                            /\ t.outcome = Throw(Get(t.calls[Len(t.calls)][2]))
         /\ t.outcome.kind = "return"
              => /\ t.outcome.value.success
                 /\ t.outcome.value.action = t.input.type
                 /\ "error" \notin DOMAIN t.outcome.value

\* click was called with its selector and page.click rejected: performAction
\* raised the engine's error
RaisesOrReturnsWitness ==
    /\ IsSome(applied)
    /\ Get(applied).input = [type |-> "click", selector |-> "#submit"]
    /\ Get(applied).calls = <<<<"click", Some(EngineError)>>>>
    /\ Get(applied).outcome = Throw(EngineError)

\* the condition variants checkAssertion knows
ConditionVariants ==
    {"url_contains", "url_equals", "title_contains", "title_equals", "element_exists",
     "element_not_exists", "element_visible", "element_text_contains", "element_count",
     "element_count_gte", "element_count_lte"}

\* C24: assertion results carry an error iff they fail. A result returned by
\* checkAssertion with success = false has a non-empty error, a result with
\* success = true has none, and a condition of no known variant gets the
\* result {success: false, condition: 'unknown'} with the "Unknown assertion
\* condition" error and is not raised.
AssertionErrors ==
    (IsSome(applied) /\ Get(applied).fn = "checkAssertion") =>
      LET t == Get(applied)
          v == t.outcome.value
      IN /\ t.outcome.kind = "return"
              => /\ ~v.success => "error" \in DOMAIN v /\ v.error # <<>>
                 /\ v.success => "error" \notin DOMAIN v
         /\ DOMAIN t.input \cap ConditionVariants = {}
              => /\ t.outcome.kind = "return"
                 /\ ~v.success
                 /\ v.condition = "unknown"
                 /\ v.error[1] = "Unknown assertion condition: "

\* url_contains "b" was checked on a page at "a": the result has success =
\* false and the error naming the URL and the expected text
AssertionErrorsWitness ==
    /\ IsSome(applied)
    /\ Get(applied).fn = "checkAssertion"
    /\ Get(applied).input = [url_contains |-> <<"b">>]
    /\ Get(applied).outcome.kind = "return"
    /\ ~Get(applied).outcome.value.success
    /\ Get(applied).outcome.value.error = <<"URL", <<"a">>, "does not contain", <<"b">>>>

\* caller c makes a close_session call in this step
CloseCalled(c) == calls' = calls + 1 /\ cargs'[c] # cargs[c] /\ "url" \notin DOMAIN cargs'[c]

\* C25: the frame of closeSession. A call for a registered id closes the
\* page of that session at once and leaves the registry and the browser
\* handle alone until page.close() has resolved; it then removes the entry
\* of that id and no other, keeping the order of the rest, so that
\* getSession(id) is absent, and the call ends with the success payload. A
\* call for an id that is not registered changes neither the registry, the
\* pages nor the browser handle, and the tool returns "Session '<id>' not
\* found" with the ids registered.
CloseFrame ==
    [][\A c \in Callers :
          /\ CloseCalled(c)
             => LET id == cargs'[c].id IN
                IF getSession(id) # None
                THEN /\ cpc'[c] = "closePage"
                     /\ pageOpen' = pageOpen \ {Get(getSession(id)).page}
                     /\ sessions' = sessions /\ browser' = browser
                     /\ browserAlive' = browserAlive
                ELSE /\ cpc'[c] = "idle"
                     /\ UNCHANGED registryVars
                     /\ cresult'[c] = Some([error |-> <<"Session '", id, "' not found">>,
                                            availableSessions |->
                                              [k \in DOMAIN sessions |-> sessions[k].id]])
          /\ (cpc[c] = "closePage" /\ cpc'[c] # "closePage")
             => LET id == cargs[c].id
                    others == {k \in DOMAIN sessions : sessions[k].id # id}
                IN /\ Len(sessions') = Cardinality(others)
                   /\ \A k \in others :
                        sessions'[Cardinality({j \in others : j <= k})] = sessions[k]
                   /\ MapGet(sessions', id) = None
                   /\ browser' = browser
                   /\ cpc'[c] \in {"idle", "closeBrowser"}
          /\ (cpc[c] \in {"closePage", "closeBrowser"} /\ cpc'[c] = "idle")
             => cresult'[c] = Some([success |-> TRUE, session |-> cargs[c].id,
                                    message |-> <<"Session '", cargs[c].id, "' closed">>])]_vars

\* with "a" and "b" registered, close_session("a") has returned success: "b"
\* is the one entry left, its page is open and the browser is up
CloseFrameWitness ==
    /\ \E c \in Callers :
          /\ cpc[c] = "idle"
          /\ cresult[c] = Closed(c)
          /\ cargs[c] = [id |-> "a"]
    /\ Len(sessions) = 1
    /\ sessions[1].id = "b"
    /\ sessions[1].page \in pageOpen
    /\ browser # None

\* the Step events of a log whose index is i
StepEventsAt(log, i) == SelectSeq(log, LAMBDA e : e.type = "step" /\ e.index = i)

\* C26: failure_reason is present if and only if failed_at is, during the run
\* and in the result returned; when present, the log holds one Step event
\* with index failed_at, that event carries an error, and failure_reason is
\* that error.
FailureReason ==
    \A r \in Runs :
        /\ IsSome(failureReason[r]) <=> IsSome(failedAt[r])
        /\ IsSome(failedAt[r]) =>
             LET at == StepEventsAt(events[r], Get(failedAt[r])) IN
               /\ Len(at) = 1
               /\ "error" \in DOMAIN at[1].result
               /\ at[1].result.error = Get(failureReason[r])
        /\ Returned(r) =>
             LET res == Get(result[r]) IN
               /\ "failure_reason" \in DOMAIN res <=> "failed_at" \in DOMAIN res
               /\ "failed_at" \in DOMAIN res =>
                    LET at == StepEventsAt(res.events, res.failed_at) IN
                      /\ Len(at) = 1
                      /\ "error" \in DOMAIN at[1].result
                      /\ at[1].result.error = res.failure_reason
               /\ "failed_at" \in DOMAIN res <=> ~res.success

\* a run of two steps returned after the second, an assertion, came back
\* unsuccessful: failed_at = 1 and failure_reason is the assertion's error
FailureReasonWitness ==
    /\ Returned("r1")
    /\ Len(dispatches["r1"]) = 2
    /\ dispatches["r1"][2].outcome = "failed"
    /\ steps("r1")[2].type = "assert"
    /\ "failed_at" \in DOMAIN Get(result["r1"])
    /\ Get(result["r1"]).failed_at = 1
    /\ Get(result["r1"]).failure_reason # <<"Step failed">>
    /\ Get(result["r1"]).failure_reason # <<>>

\* some handler of run r is attached to some page
Listens(r) == \E p \in Pages : \E k \in DOMAIN listeners[p] : listeners[p][k][1] = r

\* C27: end-of-run ordering. The step that leaves the finally block detaches
\* every listener of the invocation and reads nothing of the page; the final
\* url is read only after that, with no listener of the invocation attached,
\* and the title after the url; from the detachment on no event is appended
\* to the log, whatever the page emits, and the events returned are the log
\* as it stood when the listeners were detached.
EndOfRunOrdering ==
    [][\A r \in Runs :
          /\ (pc[r] = "finally" /\ pc'[r] # "finally")
             => /\ pc'[r] = "return"
                /\ ~Listens(r)'
                /\ finalUrl'[r] = finalUrl[r]
                /\ result'[r] = result[r]
                /\ events'[r] = events[r]
          /\ finalUrl'[r] # finalUrl[r]
             => /\ pc[r] = "return" /\ pc'[r] = "title"
                /\ ~Listens(r)
                /\ finalUrl'[r] = Some(pageUrl[page[r]])
                /\ result'[r] = result[r]
          /\ (result'[r] # result[r] /\ "events" \in DOMAIN Get(result'[r]))
             => /\ pc[r] = "title" /\ pc'[r] = "done"
                /\ ~Listens(r)
                /\ Get(result'[r]).events = events[r]
                /\ Get(result'[r]).final_state.url = Get(finalUrl[r])
          /\ pc[r] \in {"return", "title", "done", "raised"}
             => /\ events'[r] = events[r]
                /\ ~Listens(r)'
                /\ pc'[r] \in {"return", "title", "done", "raised"}]_vars

\* a run has returned although the main frame navigated while the final
\* title was awaited: the title is the one of the new page, the url the one
\* read before, and the log holds the Step events only
EndOfRunOrderingWitness ==
    /\ Returned("r1")
    /\ steps("r1") # <<>>
    /\ Get(result["r1"]).final_state.url # pageUrl[page["r1"]]
    /\ Get(result["r1"]).final_state.title = TitleOf(pageUrl[page["r1"]])
    /\ Get(result["r1"]).events = StepEventsOf(events["r1"])
    /\ Len(events["r1"]) = Len(dispatches["r1"])

\* C28: steps run one at a time in submitted order. The n-th dispatch of an
\* invocation is the one of step n - 1, so no step is dispatched twice and
\* none is skipped; only the latest dispatch can be in flight, and it is
\* exactly while the handler awaits executeStep; the log holds one Step event
\* per settled dispatch; and a dispatch starts only in a step after which
\* every earlier dispatch has settled and the Step event of the step before
\* is in the log.
OneAtATime ==
    /\ [](\A r \in Runs :
            LET h == dispatches[r] IN
              /\ \A n \in DOMAIN h :
                    /\ h[n].index = n - 1
                    /\ n <= Len(steps(r))
                    /\ h[n].outcome = "pending" => n = Len(h)
              /\ pc[r] = "dispatch" <=> (h # <<>> /\ h[Len(h)].outcome = "pending")
              /\ pc[r] = "dispatch" => h[Len(h)].index = idx[r]
              /\ Len(StepEventsOf(events[r])) =
                   Cardinality({n \in DOMAIN h : h[n].outcome # "pending"}))
    /\ [][\A r \in Runs :
            Len(dispatches'[r]) > Len(dispatches[r])
            => /\ Len(dispatches'[r]) = Len(dispatches[r]) + 1
               /\ \A n \in DOMAIN dispatches[r] :
                     /\ dispatches'[r][n].outcome # "pending"
                     /\ Len(StepEventsAt(events'[r], n - 1)) = 1
               /\ dispatches[r] # <<>>
                  => LET log == StepEventsOf(events'[r]) IN
                       /\ log[Len(log)].index = Len(dispatches[r]) - 1
                       /\ log[Len(log)].result.success]_vars

\* the second step of a run is in flight; the first has settled and its Step
\* event is in the log
OneAtATimeWitness ==
    /\ pc["r1"] = "dispatch"
    /\ Len(dispatches["r1"]) = 2
    /\ dispatches["r1"][1].outcome = "ok"
    /\ dispatches["r1"][2].outcome = "pending"
    /\ Len(StepEventsAt(events["r1"], 0)) = 1
    /\ StepEventsAt(events["r1"], 1) = <<>>

\* run r is in its step loop or has just left it
Running(r) == pc[r] \in {"dispatch", "finally"}

\* run r has at most one dispatch per submitted step behind it
WithinSteps(r) == Len(dispatches[r]) <= Len(steps(r))

\* run r stopped by a step that failed or by running out of steps
Stopped(r) ==
    \/ dispatches[r] # <<>> /\ dispatches[r][Len(dispatches[r])].outcome \in {"failed", "threw"}
    \/ /\ Len(dispatches[r]) = Len(steps(r))
       /\ \A n \in DOMAIN dispatches[r] : dispatches[r][n].outcome = "ok"

\* C29 (as stated): termination. When every await of the handler settles, an
\* invocation that has entered its step loop ends up having returned its
\* result, with its listeners detached, after at most one dispatch per
\* submitted step and stopped by a failing step or by the end of the steps.
\* The invocation does terminate, but not always by returning: the final
\* `await page.title()` can reject (C9) and the handler then raises.
Termination ==
    \A r \in Runs :
        Running(r) ~> (Returned(r) /\ ~Listens(r) /\ WithinSteps(r) /\ Stopped(r))

\* what does hold: the invocation ends, returning or raising, with its
\* listeners detached and within the submitted number of dispatches
TerminationOrRaise ==
    \A r \in Runs :
        Running(r) ~> (Finished(r) /\ ~Listens(r) /\ WithinSteps(r) /\ Stopped(r))

\* C30: one Step event per dispatched step. At every point of a run the Step
\* events of the log are as many as the dispatches that have settled, the
\* k-th of them has index k - 1 and carries the step submitted at that
\* position, at most one of them is unsuccessful, and an unsuccessful one is
\* the last Step event of the log.
OneStepEventPerStep ==
    \A r \in Runs :
        LET se == StepEventsOf(events[r])
            settled == {n \in DOMAIN dispatches[r] : dispatches[r][n].outcome # "pending"}
        IN /\ Len(se) = Cardinality(settled)
           /\ \A k \in DOMAIN se :
                 /\ se[k].index = k - 1
                 /\ k \in DOMAIN steps(r)
                 /\ se[k].step = steps(r)[k]
                 /\ se[k].result.success <=> dispatches[r][k].outcome = "ok"
                 /\ ~se[k].result.success => k = Len(se)
           /\ Cardinality({k \in DOMAIN se : ~se[k].result.success}) <= 1

\* the log of a run holds the Step events of two different steps, the second
\* unsuccessful, and an event of a collector as well
OneStepEventPerStepWitness ==
    LET se == StepEventsOf(events["r1"]) IN
      /\ Len(se) = 2
      /\ se[1].result.success
      /\ ~se[2].result.success
      /\ se[1].step # se[2].step
      /\ Len(events["r1"]) > 2

\* the checkAssertion call in flight or settled, if it is one of SpecWaiting's
Assertion == IF applied # None /\ "start" \in DOMAIN Get(applied) THEN applied ELSE None

\* the waiting policy on the record a of a checkAssertion call; `early` are
\* the rejections that may make a waiting condition fail before its timeout
Policy(a, early) ==
    LET c == a.input
        waited == a.settled - a.start
        settled == a.outcome.kind # "pending"
    IN IF ~Waiting(c)
       THEN /\ settled
            /\ waited = 0
            /\ a.calls = <<>>
       ELSE /\ a.outcome = PendingAt("waitForSelector")
               => /\ ~Satisfies(dom[a.page], WaitState(c))
                  /\ clock - a.start < a.timeout
                  /\ a.calls = <<>>
            /\ (settled /\ a.outcome.value.success)
               => /\ a.calls[1] = <<"waitForSelector", None>>
                  /\ "element_text_contains" \notin DOMAIN c => waited < a.timeout
            /\ (settled /\ ~a.outcome.value.success /\ "actual" \notin DOMAIN a.outcome.value)
               => \/ /\ waited >= a.timeout
                     /\ a.calls = <<<<"waitForSelector", Some(TimeoutError)>>>>
                  \/ a.calls[Len(a.calls)][2] \in {Some(e) : e \in early}
            /\ "element_text_contains" \in DOMAIN c
               => /\ Len(SelectSeq(a.calls, LAMBDA m : m[1] = "textContent")) <= 1
                  /\ (settled /\ "actual" \in DOMAIN a.outcome.value)
                     <=> a.calls = <<<<"waitForSelector", None>>, <<"textContent", None>>>>
            /\ "element_text_contains" \notin DOMAIN c => Len(a.calls) <= 1

\* a waitForSelector of the call resolves in this step
Resolves ==
    /\ Assertion' # None
    /\ Assertion' # Assertion
    /\ Assertion = None \/ IsPending(applied, "waitForSelector")
    /\ Waiting(Get(applied').input)
    /\ Get(applied').calls # <<>>
    /\ Get(applied').calls[1] = <<"waitForSelector", None>>

\* C31 (as stated): the waiting policy of checkAssertion. The url, title and
\* count conditions are settled at the call, with no wait. element_exists,
\* element_not_exists and element_visible wait: never while the element is
\* in the required state, succeeding at a moment within the timeout at which
\* it is, and failing only once the timeout has elapsed.
\* element_text_contains waits for attachment and reads the text once, after
\* it. The bare catch blocks make the waiting conditions fail earlier, as
\* soon as the wait rejects for any reason.
WaitingPolicy ==
    /\ [](Assertion # None => Policy(Get(applied), {}))
    /\ [][Resolves => Satisfies(dom'[Get(applied').page],
                                WaitState(Get(applied').input))]_vars

\* what does hold: the same policy, with a failure before the timeout when
\* waitForSelector or textContent rejects with an error of the engine's
WaitingPolicyOrRejected ==
    /\ [](Assertion # None => Policy(Get(applied), {EngineError}))
    /\ [][Resolves => Satisfies(dom'[Get(applied').page],
                                WaitState(Get(applied').input))]_vars

\* C32 (as stated): performAction, called with an action type of the
\* run_sequence schema and the parameters that type requires, goes on to a
\* page call and does not raise "Unknown action type".  `highlight` is in
\* the schema and has no case in performAction.
SchemaActionsDispatched ==
    (applied # None /\ Get(applied).fn = "performAction")
    => LET a == Get(applied) IN
         (/\ a.input.type \in SchemaActions
          /\ a.outcome \notin {Throw(e) : e \in ValidationErrors})
         => /\ a.calls # <<>>
            /\ a.outcome # Throw(<<"Unknown action type: ", a.input.type>>)

\* C33: the log ends with the Step event of the last dispatched step. The
\* log of a run grows only while a dispatch of that run is in flight, by one
\* event at a time, and the event is a Step event exactly when the dispatch
\* settles in that step; so nothing is recorded before the first dispatch or
\* after the last Step event, and in every result of a run that dispatched
\* a step the last event is the Step event of the last step dispatched.
LogEndsWithStep ==
    /\ [](\A r \in Runs :
            (Returned(r) /\ dispatches[r] # <<>>)
            => LET log == Get(result[r]).events IN
                 /\ log # <<>>
                 /\ log[Len(log)].type = "step"
                 /\ log[Len(log)].index = dispatches[r][Len(dispatches[r])].index)
    /\ [][\A r \in Runs :
            (events'[r] # events[r] /\ pc[r] # "idle")
            => /\ pc[r] = "dispatch"
               /\ Len(events'[r]) = Len(events[r]) + 1
               /\ SubSeq(events'[r], 1, Len(events[r])) = events[r]
               /\ events'[r][Len(events'[r])].type = "step"
                  <=> dispatches'[r][Len(dispatches[r])].outcome # "pending"]_vars

\* a run has returned a log that holds a collector's event and ends with the
\* Step event of its last step, on a page whose main frame navigated after
\* that step: the navigation is not in the log
LogEndsWithStepWitness ==
    /\ Returned("r1")
    /\ dispatches["r1"] # <<>>
    /\ LET log == Get(result["r1"]).events IN
         /\ Len(log) > Len(dispatches["r1"])
         /\ log[Len(log)].type = "step"
    /\ pageUrl[page["r1"]] # lastUrl["r1"]

\* C34: the Navigation events of a run form a chain. Each has from # to and
\* each but the first has the `to` of the one before it as its `from`.
\* lastUrl is the page's URL when the invocation starts and stays so until
\* the first Navigation event, whose `from` it is; after that it is the
\* `to` of the last one.
NavigationChain ==
    /\ [](\A r \in Runs :
            LET navs == NavigationEventsOf(events[r]) IN
              /\ \A k \in DOMAIN navs :
                    /\ navs[k].from # navs[k].to
                    /\ k > 1 => navs[k].from = navs[k - 1].to
              /\ navs # <<>> => lastUrl[r] = navs[Len(navs)].to)
    /\ [][\A r \in Runs :
            LET navs == NavigationEventsOf(events[r])
                after == NavigationEventsOf(events'[r])
            IN /\ (pc[r] = "idle" /\ pc'[r] \in {"dispatch", "finally"})
                  => /\ lastUrl'[r] = pageUrl[page'[r]]
                     /\ after = <<>>
               /\ (pc[r] # "idle" /\ navs = <<>>)
                  => /\ after = <<>> => lastUrl'[r] = lastUrl[r]
                     /\ after # <<>> => after[1].from = lastUrl[r]]_vars

\* the log of a run holds two Navigation events: the main frame went from
\* the URL the run started on to another, and back
NavigationChainWitness ==
    LET navs == NavigationEventsOf(events["r1"]) IN
      /\ Len(navs) = 2
      /\ navs[1].to = navs[2].from
      /\ navs[2].to = navs[1].from

\* the handlers of run r attached to page p, in attach order
HandlersOn(r, p) == SelectSeq(listeners[p], LAMBDA h : h[1] = r)

\* C35: listener isolation between invocations. While an invocation is in
\* its step loop the handlers it attached are attached, whatever other
\* invocations on the page do. A step of one invocation, its finally block
\* included, changes neither the log nor the attached handlers of another.
\* A page event changes the log of an invocation only if a handler of that
\* invocation is attached for the event's channel.
ListenerIsolation ==
    /\ [](\A r \in Runs :
            pc[r] \in {"dispatch", "finally"}
            => HandlersOn(r, page[r]) = HandlersOf(r, params[r].options))
    /\ [][\A r \in Runs : \A o \in Runs \ {r} :
            /\ pc'[r] # pc[r]
               => /\ events'[o] = events[o]
                  /\ \A p \in Pages : HandlersOn(o, p)' = HandlersOn(o, p)
            /\ (pc'[r] = "return" /\ pc[r] = "finally")
               => /\ HandlersOn(r, page[r])' = <<>>
                  /\ Len(listeners'[page[r]]) =
                       Len(listeners[page[r]]) - Len(HandlersOf(r, params[r].options))
            /\ (pageEvents' # pageEvents /\ events'[r] # events[r])
               => Attached(r, Get(lastEvent').page, Get(lastEvent').channel)]_vars

\* two invocations ran on one page; the first has returned, the second is
\* still in its step loop with its handlers attached, and their logs differ
ListenerIsolationWitness ==
    /\ Returned("r1")
    /\ pc["r2"] = "dispatch"
    /\ page["r1"] = page["r2"]
    /\ HandlersOn("r2", page["r2"]) # <<>>
    /\ HandlersOn("r1", page["r1"]) = <<>>
    /\ Get(result["r1"]).events # events["r2"]
    /\ events["r2"] # <<>>
    /\ Len(Get(result["r1"]).events) > 1

\* run r holds a pending entry it made for request q
Correlated(r, q) == \E e \in pendingRequests[r] : e.id[3] = <<r, q>>

\* C36 (as stated): network correlation is per invocation. When a response
\* arrives for a request that two invocations both recorded as pending,
\* while the response handlers of both are attached, each of the two logs
\* gains one Network event for it.  The identifier is kept on the request
\* object, which the invocations share: the handler attached later
\* overwrites the identifier of the earlier one, whose log gains nothing.
NetworkPerInvocation ==
    [][Emits("response")
       => LET q == Get(lastEvent').request
              both == {r \in Runs : /\ Correlated(r, q)
                                    /\ Attached(r, requests[q].page, "response")}
          IN both = Runs
             => \A r \in Runs :
                  /\ Len(events'[r]) = Len(events[r]) + 1
                  /\ events'[r][Len(events'[r])].type = "network"
                  /\ events'[r][Len(events'[r])].url = requests[q].url
                  /\ \A e \in pendingRequests'[r] : e.id[3] # <<r, q>>]_vars

\* C37: a Network event needs a request this invocation observed and
\* retained. An invocation gets a pending entry for a request only in the
\* step that emits the request, with its request handler attached and the
\* URL passing its filter; a response or failure adds to a log only if the
\* invocation holds the pending entry of that request, adds one Network
\* event with the URL of the request, and removes the entry; so a request
\* issued before the handlers were attached, or rejected by the filter,
\* never produces a Network event, and no entry outlives its event.
ObservedRequestsOnly ==
    [][\A r \in Runs :
          /\ \A q \in ReqIds :
                (Correlated(r, q)' /\ ~Correlated(r, q))
                => /\ Emits("request")
                   /\ Get(lastEvent').request = q
                   /\ requests[q].state = "none"
                   /\ Attached(r, requests'[q].page, "request")
                   /\ shouldCaptureNetwork(requests'[q].url, Capture(r, "network"))
          /\ EmitsSettled
             => LET q == Get(lastEvent').request IN
                  IF /\ Correlated(r, q)
                     /\ Retained(r, q)
                     /\ Attached(r, requests[q].page, Get(lastEvent').channel)
                  THEN /\ Len(events'[r]) = Len(events[r]) + 1
                       /\ events'[r][Len(events'[r])].type = "network"
                       /\ events'[r][Len(events'[r])].url = requests[q].url
                       /\ \A e \in pendingRequests'[r] : e.id[3] # <<r, q>>
                  ELSE events'[r] = events[r]
          /\ Len(NetworkEventsOf(events'[r])) > Len(NetworkEventsOf(events[r]))
             => EmitsSettled]_vars

\* the response of a request issued before the invocation started arrives
\* while the invocation, capturing every URL, awaits its step: the log stays
\* empty
ObservedRequestsOnlyWitness ==
    /\ pc["r1"] = "dispatch"
    /\ Enabled(params["r1"].options, "network")
    /\ Unfiltered(params["r1"].options.network)
    /\ Attached("r1", page["r1"], "response")
    /\ IsSome(lastEvent)
    /\ Get(lastEvent).channel = "response"
    /\ requests[Get(lastEvent).request].page = page["r1"]
    /\ requests[Get(lastEvent).request].seqRequestId = None
    /\ events["r1"] = <<>>
    /\ pendingRequests["r1"] = {}

\* C38 (as stated): one browser. At most one browser launched by
\* ensureBrowser is alive, and the page of every registered session belongs
\* to the browser the shared handle refers to.  Two openSession calls that
\* both find no browser both launch one.
OneBrowser ==
    /\ Cardinality(browserAlive) <= 1
    /\ \A k \in DOMAIN sessions :
          /\ browser # None
          /\ pageBrowser[sessions[k].page] = Get(browser)

\* C39 (as stated): a registered session has a browser. Whenever the
\* registry holds a session the shared handle is set and its browser has not
\* been closed.  closeSession clears the handle after awaiting
\* browser.close(), while an openSession that started during that await has
\* stored a newly launched browser in it.
RegisteredHasBrowser ==
    sessions # <<>> => (browser # None /\ Get(browser) \in browserAlive)

\* no open_session or close_session call is in flight
NoCallInFlight == \A c \in Callers : cpc[c] = "idle"

\* C40 (as stated): no orphan pages. Whenever no open or close call is in
\* flight every open page is the page of exactly one registered session.
\* openSession does not close the page it created when a later await of it
\* rejects.
NoOrphanPages ==
    NoCallInFlight
    => \A p \in pageOpen : Cardinality({k \in DOMAIN sessions : sessions[k].page = p}) = 1

====
